---- MODULE Spec2Model ----
(***************************************************************************)
(* Cache visualizer: the LRU cache simulator (simulation/cache.js), the    *)
(* iteration generators (simulation/iterations.js), the address resolver   *)
(* (simulation/memory.js), the matmul and conv2d operations                *)
(* (operations/matmul.js, operations/conv2d.js) and the step engine        *)
(* (ui/handlers.js, ui/state.js).                                          *)
(*                                                                         *)
(* JavaScript arrays are objects: `this.lines` and `snap.lines` are        *)
(* references.  The model keeps every line array in `heap` and lets the    *)
(* cache and the snapshots hold array ids, so that copying an array        *)
(* ([...a]) and sharing it are different things.                           *)
(***************************************************************************)
EXTENDS Integers, Sequences, FiniteSets, TLC

VARIABLES
    matrixSize,  \* MATRIX_SIZE of rendering/config.js, the size the page was built with
    heap,        \* array id -> contents of a line array (a sequence of line addresses)
    cache,       \* SpecCache: the CacheSimulator object under test
    saved,       \* SpecCache: the snapshot the caller holds (`const snap = cache.snapshot()`), <<>> or <<snap>>
    ret,         \* SpecCache: what the last call returned
    call,        \* SpecCache: the last call: its name and, for access (under SpecLRU for isAddressCached too), the address;
                 \* for restore, 1 when the cache differed from the snapshot's contents before the call;
                 \* for reset (SpecCache), 1 when the cache held a line before the call
    touched,     \* SpecLRU, history: the distinct lines accessed since the last reset, least recently accessed first
    savedAt,     \* SpecCache, history: the cache contents when saved[1] was taken
    twin,        \* SpecCache, history: a second cache started from savedAt[1] at restore(saved[1])
    twinRet,     \* SpecCache, history: what the last access returned on the twin
    state,       \* Spec: the `state` object of ui/state.js
    snapshots,   \* Spec: the undo stack of ui/state.js
    animationId, \* Spec: the id of the requested animation frame, or 0 (null)
    frames,      \* Spec: the animation frames the browser still has to deliver
    error,       \* Spec: an exception escaped an event handler
    event,       \* Spec: the last event handled: its name, its argument, and whether the cursor
                 \* went back (-1), stayed (0) or advanced (1)
    gen          \* SpecGen: the last call of a generator: its arguments and what it returned

vars == <<matrixSize, heap, cache, saved, ret, call, touched, savedAt, twin, twinRet,
          state, snapshots, animationId, frames, error, event, gen>>

cacheVars == <<cache, saved, ret, call, touched, savedAt, twin, twinRet>>
engineVars == <<state, snapshots, animationId, frames, error, event>>

(***************************************************************************)
(* Bounds of the model.                                                    *)
(***************************************************************************)
MaxAddr == 2        \* SpecCache accesses the byte addresses 0..MaxAddr
MaxCapacity == 2    \* SpecCache constructs caches with capacityBytes in 0..MaxCapacity
MaxLineSize == 2    \* SpecCache constructs caches with lineSize in 1..MaxLineSize
MaxAccesses == 3    \* SpecCache stops accessing once totalAccesses reaches MaxAccesses

(***************************************************************************)
(* JavaScript array operations, on sequences (1-based).                    *)
(***************************************************************************)
Range(s) == {s[i] : i \in DOMAIN s}

Min(a, b) == IF a < b THEN a ELSE b

Max(a, b) == IF a > b THEN a ELSE b

\* Array.prototype.indexOf, 1-based; 0 when absent (-1 in JavaScript).
indexOf(arr, x) ==
    IF \E i \in DOMAIN arr : arr[i] = x
    THEN CHOOSE i \in DOMAIN arr : arr[i] = x /\ \A j \in 1..(i - 1) : arr[j] # x
    ELSE 0

\* arr.splice(index, 1): the array without its element at index.
splice(arr, index) == SubSeq(arr, 1, index - 1) \o SubSeq(arr, index + 1, Len(arr))

\* arr.shift(): the array without its first element (an empty array stays empty).
shift(arr) == IF Len(arr) = 0 THEN arr ELSE Tail(arr)

\* arr.includes(x)
includes(arr, x) == x \in Range(arr)

\* The id of a freshly allocated array: the least id the heap does not hold.
NewRef(h) == CHOOSE r \in 0..Cardinality(DOMAIN h) :
                 r \notin DOMAIN h /\ \A q \in 0..(r - 1) : q \in DOMAIN h

\* The heap with a new array of contents arr at id r.
Alloc(h, r, arr) == (r :> arr) @@ h

\* Garbage collection: only the arrays some object still refers to remain.
Collect(h, live) == [r \in (DOMAIN h) \cap live |-> h[r]]

(***************************************************************************)
(* CacheSimulator (simulation/cache.js).  A method takes the object c and  *)
(* the heap h and returns the object, the heap and the returned value.     *)
(***************************************************************************)
\* new CacheSimulator(capacityBytes, lineSize); `lines` is the id of its array.
CacheSimulator(h, capacityBytes, lineSize) ==
    LET r == NewRef(h)
    IN [cache |-> [capacityBytes |-> capacityBytes,
                   lineSize |-> lineSize,
                   maxLines |-> capacityBytes \div lineSize,
                   lines |-> r,
                   totalAccesses |-> 0,
                   hits |-> 0,
                   misses |-> 0],
        heap |-> Alloc(h, r, <<>>)]

getLineAddress(c, address) == (address \div c.lineSize) * c.lineSize

\* access that leaves a line where it is on a hit (no move to the most-recently-used end).
accessNoMoveOnHit(c, h, address) ==
    LET lineAddr == getLineAddress(c, address)
        arr == h[c.lines]
        index == indexOf(arr, lineAddr)
    IN IF index # 0
       THEN [cache |-> [c EXCEPT !.totalAccesses = @ + 1, !.hits = @ + 1],
             heap |-> h,
             ret |-> TRUE]
       ELSE [cache |-> [c EXCEPT !.totalAccesses = @ + 1, !.misses = @ + 1],
             heap |-> [h EXCEPT ![c.lines] =
                          Append(IF Len(arr) >= c.maxLines THEN shift(arr) ELSE arr,
                                 lineAddr)],
             ret |-> FALSE]

\* access that looks the address itself up, without rounding it down to its line.
accessExactAddress(c, h, address) ==
    LET lineAddr == address
        arr == h[c.lines]
        index == indexOf(arr, lineAddr)
    IN IF index # 0
       THEN [cache |-> [c EXCEPT !.totalAccesses = @ + 1, !.hits = @ + 1],
             heap |-> [h EXCEPT ![c.lines] = Append(splice(arr, index), lineAddr)],
             ret |-> TRUE]
       ELSE [cache |-> [c EXCEPT !.totalAccesses = @ + 1, !.misses = @ + 1],
             heap |-> [h EXCEPT ![c.lines] =
                          Append(IF Len(arr) >= c.maxLines THEN shift(arr) ELSE arr,
                                 lineAddr)],
             ret |-> FALSE]

\* access that counts a miss in totalAccesses only (no misses++).
accessNotCountingMisses(c, h, address) ==
    LET lineAddr == getLineAddress(c, address)
        arr == h[c.lines]
        index == indexOf(arr, lineAddr)
    IN IF index # 0
       THEN [cache |-> [c EXCEPT !.totalAccesses = @ + 1, !.hits = @ + 1],
             heap |-> [h EXCEPT ![c.lines] = Append(splice(arr, index), lineAddr)],
             ret |-> TRUE]
       ELSE [cache |-> [c EXCEPT !.totalAccesses = @ + 1],
             heap |-> [h EXCEPT ![c.lines] =
                          Append(IF Len(arr) >= c.maxLines THEN shift(arr) ELSE arr,
                                 lineAddr)],
             ret |-> FALSE]

\* access(address): splice/push on a hit, shift (when full) and push on a miss.
access(c, h, address) ==
    LET lineAddr == getLineAddress(c, address)
        arr == h[c.lines]
        index == indexOf(arr, lineAddr)
    IN IF index # 0
       THEN [cache |-> [c EXCEPT !.totalAccesses = @ + 1, !.hits = @ + 1],
             heap |-> [h EXCEPT ![c.lines] = Append(splice(arr, index), lineAddr)],
             ret |-> TRUE]
       ELSE [cache |-> [c EXCEPT !.totalAccesses = @ + 1, !.misses = @ + 1],
             heap |-> [h EXCEPT ![c.lines] =
                          Append(IF Len(arr) >= c.maxLines THEN shift(arr) ELSE arr,
                                 lineAddr)],
             ret |-> FALSE]

\* isAddressCached that moves the line it finds to the most-recently-used end.
isAddressCachedTouching(c, h, address) ==
    LET lineAddr == getLineAddress(c, address)
        arr == h[c.lines]
        index == indexOf(arr, lineAddr)
    IN [cache |-> c,
        heap |-> IF index # 0
                 THEN [h EXCEPT ![c.lines] = Append(splice(arr, index), lineAddr)]
                 ELSE h,
        ret |-> index # 0]

\* isAddressCached(address): this.lines.includes(lineAddr)
isAddressCached(c, h, address) ==
    [cache |-> c,
     heap |-> h,
     ret |-> includes(h[c.lines], getLineAddress(c, address))]

\* reset that clears the counters and keeps the lines.
resetKeepingLines(c, h) ==
    [cache |-> [c EXCEPT !.totalAccesses = 0, !.hits = 0, !.misses = 0],
     heap |-> h]

\* reset(): a new empty array and zeroed counters.
reset(c, h) ==
    LET r == NewRef(h)
    IN [cache |-> [c EXCEPT !.lines = r, !.totalAccesses = 0, !.hits = 0, !.misses = 0],
        heap |-> Alloc(h, r, <<>>)]

\* snapshot that hands out the cache's own array (lines: this.lines).
snapshotSharingLines(c, h) ==
    [snap |-> [lines |-> c.lines,
               totalAccesses |-> c.totalAccesses,
               hits |-> c.hits,
               misses |-> c.misses],
     heap |-> h]

\* snapshot(): { lines: [...this.lines], totalAccesses, hits, misses }
snapshot(c, h) ==
    LET r == NewRef(h)
    IN [snap |-> [lines |-> r,
                  totalAccesses |-> c.totalAccesses,
                  hits |-> c.hits,
                  misses |-> c.misses],
        heap |-> Alloc(h, r, h[c.lines])]

\* restore that adopts the snapshot's array (this.lines = snap.lines).
restoreSharingLines(c, h, snap) ==
    [cache |-> [c EXCEPT !.lines = snap.lines,
                         !.totalAccesses = snap.totalAccesses,
                         !.hits = snap.hits,
                         !.misses = snap.misses],
     heap |-> h]

\* restore that copies the lines and leaves the counters as they are.
restoreKeepingCounters(c, h, snap) ==
    LET r == NewRef(h)
    IN [cache |-> [c EXCEPT !.lines = r],
        heap |-> Alloc(h, r, h[snap.lines])]

\* restore(snap): this.lines = [...snap.lines] and the three counters.
restore(c, h, snap) ==
    LET r == NewRef(h)
    IN [cache |-> [c EXCEPT !.lines = r,
                            !.totalAccesses = snap.totalAccesses,
                            !.hits = snap.hits,
                            !.misses = snap.misses],
        heap |-> Alloc(h, r, h[snap.lines])]

\* What a cache holds, by value: the resident lines in order and the counters.
CacheValue(c, h) ==
    [lines |-> h[c.lines], totalAccesses |-> c.totalAccesses,
     hits |-> c.hits, misses |-> c.misses]

(***************************************************************************)
(* The level-tagged CacheSimulator (the other simulation/cache.js of the   *)
(* repository): the same class with a `level`, whose access returns        *)
(* { hit, level } and whose isAddressCached returns the level or null.     *)
(* Returned JavaScript values carry their type.                            *)
(***************************************************************************)
JsBoolean(b) == [type |-> "boolean", value |-> b]

JsNumber(n) == [type |-> "number", value |-> n]

JsNull == [type |-> "null"]

JsObject(fields) == [type |-> "object", fields |-> fields]

\* The levels of a hierarchy: 1 = L1, 2 = L2, 3 = L3.
Levels == {1, 2, 3}

\* new CacheSimulator(capacityBytes, lineSize, level)
CacheSimulatorLevel(h, capacityBytes, lineSize, level) ==
    LET r == NewRef(h)
    IN [cache |-> [capacityBytes |-> capacityBytes,
                   lineSize |-> lineSize,
                   level |-> level,
                   maxLines |-> capacityBytes \div lineSize,
                   lines |-> r,
                   totalAccesses |-> 0,
                   hits |-> 0,
                   misses |-> 0],
        heap |-> Alloc(h, r, <<>>)]

\* access(address) of the level-tagged class
accessLevel(c, h, address) ==
    LET lineAddr == getLineAddress(c, address)
        arr == h[c.lines]
        index == indexOf(arr, lineAddr)
    IN IF index # 0
       THEN [cache |-> [c EXCEPT !.totalAccesses = @ + 1, !.hits = @ + 1],
             heap |-> [h EXCEPT ![c.lines] = Append(splice(arr, index), lineAddr)],
             ret |-> JsObject([hit |-> JsBoolean(TRUE), level |-> JsNumber(c.level)])]
       ELSE [cache |-> [c EXCEPT !.totalAccesses = @ + 1, !.misses = @ + 1],
             heap |-> [h EXCEPT ![c.lines] =
                          Append(IF Len(arr) >= c.maxLines THEN shift(arr) ELSE arr,
                                 lineAddr)],
             ret |-> JsObject([hit |-> JsBoolean(FALSE), level |-> JsNull])]

\* isAddressCached(address) of the level-tagged class
isAddressCachedLevel(c, h, address) ==
    [cache |-> c,
     heap |-> h,
     ret |-> IF includes(h[c.lines], getLineAddress(c, address))
             THEN JsNumber(c.level) ELSE JsNull]

(***************************************************************************)
(* Matrix multiplication (operations/matmul.js).  The closures of a tensor *)
(* are data here: getIndices of A is iter => ({row: iter.i, col: iter.k}), *)
(* which the record keeps as rowDim = "i", colDim = "k".                   *)
(***************************************************************************)
ELEMENT_SIZE == 4

MATRIX_SIZE == 12

MatSize == 2        \* Spec runs the page built with MATRIX_SIZE = MatSize

createMatmulOperation(size, elementSize) ==
    LET elementsPerMatrix == size * size
    IN [name |-> "matmul",
        size |-> size,
        elementSize |-> elementSize,
        loopDims |-> <<"i", "j", "k">>,
        loopBounds |-> [i |-> size, j |-> size, k |-> size],
        loopOrders |-> [ijk |-> <<"i", "j", "k">>,
                        ikj |-> <<"i", "k", "j">>,
                        jik |-> <<"j", "i", "k">>,
                        jki |-> <<"j", "k", "i">>,
                        kij |-> <<"k", "i", "j">>,
                        kji |-> <<"k", "j", "i">>],
        tensors |-> << [name |-> "A", baseAddress |-> 0,
                        rows |-> size, cols |-> size,
                        rowDim |-> "i", colDim |-> "k", hasGetLinearIndex |-> TRUE],
                       [name |-> "B", baseAddress |-> elementsPerMatrix * elementSize,
                        rows |-> size, cols |-> size,
                        rowDim |-> "k", colDim |-> "j", hasGetLinearIndex |-> TRUE],
                       [name |-> "C", baseAddress |-> 2 * elementsPerMatrix * elementSize,
                        rows |-> size, cols |-> size,
                        rowDim |-> "i", colDim |-> "j", hasGetLinearIndex |-> TRUE] >>,
        tileableDims |-> <<"i", "j", "k">>,
        tileSizes |-> <<2, 4, 6>>]

\* createConv2dOperation(config) (operations/conv2d.js), config with every field given.
\* The closures of a tensor are data: the loop dimensions its indices are read from.
createConv2dOperation(config) ==
    LET inputH == config.inputH
        inputW == config.inputW
        channels_in == config.channels_in
        channels_out == config.channels_out
        kernelH == config.kernelH
        kernelW == config.kernelW
        elementSize == config.elementSize
        outputH == inputH - kernelH + 1
        outputW == inputW - kernelW + 1
        inputSize == inputH * inputW * channels_in
        kernelSize == kernelH * kernelW * channels_in * channels_out
    IN [name |-> "conv2d",
        elementSize |-> elementSize,
        dimensions |-> [inputH |-> inputH, inputW |-> inputW, channels_in |-> channels_in,
                        kernelH |-> kernelH, kernelW |-> kernelW,
                        outputH |-> outputH, outputW |-> outputW,
                        channels_out |-> channels_out],
        loopDims |-> <<"c_out", "h_out", "w_out", "c_in", "k_h", "k_w">>,
        loopBounds |-> [c_out |-> channels_out, h_out |-> outputH, w_out |-> outputW,
                        c_in |-> channels_in, k_h |-> kernelH, k_w |-> kernelW],
        loopOrders |->
            ("c_out,h_out,w_out,c_in,k_h,k_w" :>
                 <<"c_out", "h_out", "w_out", "c_in", "k_h", "k_w">>)
            @@ ("h_out,w_out,c_out,c_in,k_h,k_w" :>
                 <<"h_out", "w_out", "c_out", "c_in", "k_h", "k_w">>)
            @@ ("c_in,k_h,k_w,c_out,h_out,w_out" :>
                 <<"c_in", "k_h", "k_w", "c_out", "h_out", "w_out">>)
            @@ ("k_h,k_w,c_in,c_out,h_out,w_out" :>
                 <<"k_h", "k_w", "c_in", "c_out", "h_out", "w_out">>),
        tensors |-> << [name |-> "Input", baseAddress |-> 0,
                        rows |-> inputH, cols |-> inputW, channels |-> channels_in,
                        is3D |-> TRUE, layoutOptions |-> <<"CHW", "HWC">>,
                        hasGetLinearIndex |-> TRUE],
                       [name |-> "Kernel", baseAddress |-> inputSize * elementSize,
                        rows |-> kernelH, cols |-> kernelW,
                        channels_in |-> channels_in, channels_out |-> channels_out,
                        is4D |-> TRUE, layoutOptions |-> <<"OIHW", "HWIO">>,
                        hasGetLinearIndex |-> TRUE],
                       [name |-> "Output",
                        baseAddress |-> (inputSize + kernelSize) * elementSize,
                        rows |-> outputH, cols |-> outputW, channels |-> channels_out,
                        is3D |-> TRUE, layoutOptions |-> <<"CHW", "HWC">>,
                        hasGetLinearIndex |-> TRUE] >>,
        tileableDims |-> <<"h_out", "w_out">>,
        tileSizes |-> <<2, 4>>]

\* op.getTotalIterations(): size * size * size for matmul,
\* channels_out * outputH * outputW * channels_in * kernelH * kernelW for conv2d.
getTotalIterations(op) ==
    IF op.name = "conv2d"
    THEN op.dimensions.channels_out * op.dimensions.outputH * op.dimensions.outputW
         * op.dimensions.channels_in * op.dimensions.kernelH * op.dimensions.kernelW
    ELSE op.size * op.size * op.size

\* tensor.getIndices(iter): Input, Kernel and Output of conv2d, else a matmul tensor.
getIndices(tensor, iter) ==
    CASE tensor.name = "Input" ->
             [channel |-> iter.c_in, row |-> iter.h_out + iter.k_h,
              col |-> iter.w_out + iter.k_w]
      [] tensor.name = "Kernel" ->
             [c_out |-> iter.c_out, c_in |-> iter.c_in, row |-> iter.k_h, col |-> iter.k_w]
      [] tensor.name = "Output" ->
             [channel |-> iter.c_out, row |-> iter.h_out, col |-> iter.w_out]
      [] OTHER -> [row |-> iter[tensor.rowDim], col |-> iter[tensor.colDim]]

\* tensor.getTotalElements(); size * size for a matmul tensor.
getTotalElements(tensor) ==
    CASE tensor.name = "Input" -> tensor.rows * tensor.cols * tensor.channels
      [] tensor.name = "Kernel" ->
             tensor.rows * tensor.cols * tensor.channels_in * tensor.channels_out
      [] tensor.name = "Output" -> tensor.rows * tensor.cols * tensor.channels
      [] OTHER -> tensor.rows * tensor.rows

\* conv2d tensor.getCoordinatesFromLinear that decodes every layout as the default one.
getCoordinatesFromLinearIgnoringLayout(tensor, linearIdx, layout) ==
    CASE tensor.name \in {"Input", "Output"} ->
             [channel |-> linearIdx \div (tensor.rows * tensor.cols),
              row |-> (linearIdx % (tensor.rows * tensor.cols)) \div tensor.cols,
              col |-> linearIdx % tensor.cols]
      [] tensor.name = "Kernel" ->
             LET remainder1 == linearIdx % (tensor.channels_in * tensor.rows * tensor.cols)
                 remainder2 == remainder1 % (tensor.rows * tensor.cols)
             IN [c_out |-> linearIdx \div (tensor.channels_in * tensor.rows * tensor.cols),
                 c_in |-> remainder1 \div (tensor.rows * tensor.cols),
                 row |-> remainder2 \div tensor.cols,
                 col |-> remainder2 % tensor.cols]
      [] OTHER ->
             [row |-> linearIdx \div tensor.rows, col |-> linearIdx % tensor.rows]

\* tensor.getLinearIndex(iter, layout); in a matmul tensor size is tensor.rows.
tensorGetLinearIndex(tensor, iter, layout) ==
    CASE tensor.name = "Input" ->
             LET c == iter.c_in
                 h == iter.h_out + iter.k_h
                 w == iter.w_out + iter.k_w
             IN IF layout = "HWC"
                THEN h * (tensor.cols * tensor.channels) + w * tensor.channels + c
                ELSE c * (tensor.rows * tensor.cols) + h * tensor.cols + w
      [] tensor.name = "Kernel" ->
             LET o == iter.c_out
                 i == iter.c_in
                 h == iter.k_h
                 w == iter.k_w
             IN IF layout = "HWIO"
                THEN h * (tensor.cols * tensor.channels_in * tensor.channels_out)
                     + w * (tensor.channels_in * tensor.channels_out)
                     + i * tensor.channels_out + o
                ELSE o * (tensor.channels_in * tensor.rows * tensor.cols)
                     + i * (tensor.rows * tensor.cols)
                     + h * tensor.cols + w
      [] tensor.name = "Output" ->
             LET c == iter.c_out
                 h == iter.h_out
                 w == iter.w_out
             IN IF layout = "HWC"
                THEN h * (tensor.cols * tensor.channels) + w * tensor.channels + c
                ELSE c * (tensor.rows * tensor.cols) + h * tensor.cols + w
      [] OTHER ->
             LET row == iter[tensor.rowDim]
                 col == iter[tensor.colDim]
                 size == tensor.rows
             IN IF layout = "col" THEN col * size + row ELSE row * size + col

\* tensor.getCoordinatesFromLinear(linearIdx, layout)
getCoordinatesFromLinear(tensor, linearIdx, layout) ==
    CASE tensor.name \in {"Input", "Output"} ->
             IF layout = "HWC"
             THEN [channel |-> linearIdx % tensor.channels,
                   row |-> linearIdx \div (tensor.cols * tensor.channels),
                   col |-> (linearIdx % (tensor.cols * tensor.channels))
                           \div tensor.channels]
             ELSE [channel |-> linearIdx \div (tensor.rows * tensor.cols),
                   row |-> (linearIdx % (tensor.rows * tensor.cols)) \div tensor.cols,
                   col |-> linearIdx % tensor.cols]
      [] tensor.name = "Kernel" ->
             IF layout = "HWIO"
             THEN LET remainder1 ==
                          linearIdx % (tensor.cols * tensor.channels_in * tensor.channels_out)
                      remainder2 == remainder1 % (tensor.channels_in * tensor.channels_out)
                  IN [c_out |-> remainder2 % tensor.channels_out,
                      c_in |-> remainder2 \div tensor.channels_out,
                      row |-> linearIdx
                              \div (tensor.cols * tensor.channels_in * tensor.channels_out),
                      col |-> remainder1 \div (tensor.channels_in * tensor.channels_out)]
             ELSE LET remainder1 ==
                          linearIdx % (tensor.channels_in * tensor.rows * tensor.cols)
                      remainder2 == remainder1 % (tensor.rows * tensor.cols)
                  IN [c_out |-> linearIdx
                                \div (tensor.channels_in * tensor.rows * tensor.cols),
                      c_in |-> remainder1 \div (tensor.rows * tensor.cols),
                      row |-> remainder2 \div tensor.cols,
                      col |-> remainder2 % tensor.cols]
      [] OTHER ->
             IF layout = "col"
             THEN [row |-> linearIdx % tensor.rows, col |-> linearIdx \div tensor.rows]
             ELSE [row |-> linearIdx \div tensor.rows, col |-> linearIdx % tensor.rows]

\* The layouts a tensor declares: its layoutOptions, or 'row' and 'col' (matmul).
DeclaredLayouts(tensor) ==
    IF "layoutOptions" \in DOMAIN tensor
    THEN Range(tensor.layoutOptions)
    ELSE {"row", "col"}

(***************************************************************************)
(* Address resolver (simulation/memory.js).                                *)
(***************************************************************************)
\* getTensorAddress that takes every layout as row-major.
getTensorAddressRowMajor(tensor, row, col, layout, elementSize) ==
    LET size == IF tensor.rows # 0 THEN tensor.rows ELSE MATRIX_SIZE
    IN tensor.baseAddress + (row * size + col) * elementSize

\* getTensorAddress(tensor, row, col, layout, elementSize); size is tensor.rows || MATRIX_SIZE.
getTensorAddress(tensor, row, col, layout, elementSize) ==
    LET size == IF tensor.rows # 0 THEN tensor.rows ELSE MATRIX_SIZE
    IN IF layout = "col"
       THEN tensor.baseAddress + (col * size + row) * elementSize
       ELSE tensor.baseAddress + (row * size + col) * elementSize

\* getAccessAddress that leaves the tensor's baseAddress out.
getAccessAddressWithoutBase(tensor, iter, layouts, elementSize) ==
    IF tensor.hasGetLinearIndex
    THEN LET layout == layouts[tensor.name]
             linearIndex == tensorGetLinearIndex(tensor, iter, layout)
         IN linearIndex * elementSize
    ELSE LET indices == getIndices(tensor, iter)
             layout == layouts[tensor.name]
         IN getTensorAddress(tensor, indices.row, indices.col, layout, elementSize)

getAccessAddress(tensor, iter, layouts, elementSize) ==
    IF tensor.hasGetLinearIndex
    THEN LET layout == layouts[tensor.name]
             linearIndex == tensorGetLinearIndex(tensor, iter, layout)
         IN tensor.baseAddress + linearIndex * elementSize
    ELSE LET indices == getIndices(tensor, iter)
             layout == layouts[tensor.name]
         IN getTensorAddress(tensor, indices.row, indices.col, layout, elementSize)

(***************************************************************************)
(* Residency predicates of the renderer (rendering/tensors.js).  Each      *)
(* returns the address it asks the cache c (of heap h) about, and the      *)
(* answer of cache.isAddressCached.                                        *)
(***************************************************************************)
isElementInCache2D(tensor, row, col, c, h, layouts, elementSize) ==
    LET layout == layouts[tensor.name]
        size == tensor.rows
        linearIndex == IF layout = "col" THEN col * size + row ELSE row * size + col
        address == tensor.baseAddress + linearIndex * elementSize
    IN [address |-> address, ret |-> isAddressCached(c, h, address).ret]

\* isElementInCache3D that takes every layout as CHW.
isElementInCache3DIgnoringLayout(tensor, channel, row, col, c, h, layouts, elementSize) ==
    LET linearIndex == channel * (tensor.rows * tensor.cols) + row * tensor.cols + col
        address == tensor.baseAddress + linearIndex * elementSize
    IN [address |-> address, ret |-> isAddressCached(c, h, address).ret]

isElementInCache3D(tensor, channel, row, col, c, h, layouts, elementSize) ==
    LET layout == layouts[tensor.name]
        linearIndex ==
            IF layout = "HWC"
            THEN row * (tensor.cols * tensor.channels) + col * tensor.channels + channel
            ELSE channel * (tensor.rows * tensor.cols) + row * tensor.cols + col
        address == tensor.baseAddress + linearIndex * elementSize
    IN [address |-> address, ret |-> isAddressCached(c, h, address).ret]

isElementInCache4D(tensor, c_out, c_in, row, col, c, h, layouts, elementSize) ==
    LET layout == layouts[tensor.name]
        linearIndex ==
            IF layout = "HWIO"
            THEN row * (tensor.cols * tensor.channels_in * tensor.channels_out)
                 + col * (tensor.channels_in * tensor.channels_out)
                 + c_in * tensor.channels_out + c_out
            ELSE c_out * (tensor.channels_in * tensor.rows * tensor.cols)
                 + c_in * (tensor.rows * tensor.cols)
                 + row * tensor.cols + col
        address == tensor.baseAddress + linearIndex * elementSize
    IN [address |-> address, ret |-> isAddressCached(c, h, address).ret]

\* tensor.is4D / tensor.is3D: undefined (falsy) in a tensor that does not declare it.
Flag(tensor, name) == name \in DOMAIN tensor /\ tensor[name]

isElementInCacheByCoords(tensor, coords, c, h, layouts, elementSize) ==
    IF Flag(tensor, "is4D")
    THEN isElementInCache4D(tensor, coords.c_out, coords.c_in, coords.row, coords.col,
                            c, h, layouts, elementSize)
    ELSE IF Flag(tensor, "is3D")
    THEN isElementInCache3D(tensor, coords.channel, coords.row, coords.col,
                            c, h, layouts, elementSize)
    ELSE isElementInCache2D(tensor, coords.row, coords.col, c, h, layouts, elementSize)

(***************************************************************************)
(* Iteration generators (simulation/iterations.js).  A generator returns   *)
(* [threw, value]: threw when it raised 'Unknown loop order'.              *)
(***************************************************************************)
RECURSIVE Flatten(_)
\* The concatenation of a sequence of sequences.
Flatten(ss) == IF Len(ss) = 0 THEN <<>> ELSE Head(ss) \o Flatten(Tail(ss))

RECURSIVE nestLoopsInclusive(_, _, _, _)
\* nestLoops whose loop runs to the bound included (i <= bound).
nestLoopsInclusive(op, order, depth, currentIndices) ==
    IF depth = Len(order)
    THEN << [dim \in Range(op.loopDims) |-> currentIndices[dim]] >>
    ELSE LET dim == order[depth + 1]
             bound == op.loopBounds[dim]
         IN Flatten([n \in 1..(bound + 1) |->
                        nestLoopsInclusive(op, order, depth + 1,
                                           (dim :> (n - 1)) @@ currentIndices)])

RECURSIVE nestLoopsReversed(_, _, _, _)
\* nestLoops that takes the dimensions of the order from its end: the last one outermost.
nestLoopsReversed(op, order, depth, currentIndices) ==
    IF depth = Len(order)
    THEN << [dim \in Range(op.loopDims) |-> currentIndices[dim]] >>
    ELSE LET dim == order[Len(order) - depth]
             bound == op.loopBounds[dim]
         IN Flatten([n \in 1..bound |->
                        nestLoopsReversed(op, order, depth + 1,
                                          (dim :> (n - 1)) @@ currentIndices)])

RECURSIVE nestLoops(_, _, _, _)
\* nestLoops(depth, currentIndices) of generateIterations; depth counts from 0.
nestLoops(op, order, depth, currentIndices) ==
    IF depth = Len(order)
    THEN << [dim \in Range(op.loopDims) |-> currentIndices[dim]] >>
    ELSE LET dim == order[depth + 1]
             bound == op.loopBounds[dim]
         IN Flatten([n \in 1..bound |->
                        nestLoops(op, order, depth + 1, (dim :> (n - 1)) @@ currentIndices)])

\* The functions an object literal inherits from Object.prototype, by name, with their
\* `length`: obj['toString'] and obj['constructor'] are defined for every object.
InheritedFunctions == [toString |-> 0, constructor |-> 1]

\* undefined
Undefined == "undefined"

\* obj[key]: an own property, else an inherited function, else undefined.
getProperty(obj, key) ==
    IF key \in DOMAIN obj THEN [type |-> "array", value |-> obj[key]]
    ELSE IF key \in DOMAIN InheritedFunctions
    THEN [type |-> "function", length |-> InheritedFunctions[key]]
    ELSE [type |-> Undefined]

\* What a generator returned: threw with the message of the error, or did not return
\* (diverged), or the list.
Thrown(message) ==
    [threw |-> TRUE, message |-> message, diverged |-> FALSE, value |-> <<>>]

Returned(value) ==
    [threw |-> FALSE, message |-> "", diverged |-> FALSE, value |-> value]

Diverged ==
    [threw |-> FALSE, message |-> "", diverged |-> TRUE, value |-> <<>>]

\* generateIterations(op, loopOrder).  When order is an inherited function, !order is
\* false: with order.length = 0 the first call of nestLoops is a leaf and pushes one
\* record of undefined indices; otherwise order[0] and its bound are undefined and the
\* loop `i < bound` runs no iteration.
generateIterations(op, loopOrder) ==
    LET order == getProperty(op.loopOrders, loopOrder)
    IN CASE order.type = Undefined -> Thrown("Unknown loop order")
         [] order.type = "function" ->
                IF order.length = 0
                THEN Returned(<< [dim \in Range(op.loopDims) |-> Undefined] >>)
                ELSE Returned(<<>>)
         [] OTHER -> Returned(nestLoops(op, order.value, 0, <<>>))

\* order.findIndex(d => tileableDims.has(d)), 1-based; 0 when none (-1 in JavaScript).
findFirstTiled(order, tileableDims) ==
    IF \E i \in DOMAIN order : order[i] \in tileableDims
    THEN CHOOSE i \in DOMAIN order :
             order[i] \in tileableDims /\ \A j \in 1..(i - 1) : order[j] \notin tileableDims
    ELSE 0

\* The subsequence of s whose elements satisfy membership in S, in order.
RECURSIVE SelectIn(_, _)
SelectIn(s, S) ==
    IF Len(s) = 0 THEN <<>>
    ELSE IF Head(s) \in S THEN <<Head(s)>> \o SelectIn(Tail(s), S)
         ELSE SelectIn(Tail(s), S)

\* The loopSpec of the documented nest: the non-tiled dimensions after the first tiled
\* one between the tile loops and the element loops, the element loops innermost.
loopSpecOfElementsInnermost(op, order, tileSize, firstTiledIdx) ==
    LET bounds == op.loopBounds
        tileableDims == Range(op.tileableDims)
        tiled == SelectIn(order, tileableDims)
        after == SelectIn(SubSeq(order, firstTiledIdx, Len(order)),
                          Range(order) \ tileableDims)
    IN [i \in 1..(firstTiledIdx - 1) |->
           [dim |-> order[i], type |-> "simple", tiledDim |-> order[i],
            bound |-> bounds[order[i]], step |-> 1]]
       \o
       [i \in 1..Len(tiled) |->
           [dim |-> "t" \o tiled[i], type |-> "tile", tiledDim |-> tiled[i],
            bound |-> bounds[tiled[i]], step |-> tileSize]]
       \o
       [i \in 1..Len(after) |->
           [dim |-> after[i], type |-> "simple", tiledDim |-> after[i],
            bound |-> bounds[after[i]], step |-> 1]]
       \o
       [i \in 1..Len(tiled) |->
           [dim |-> tiled[i], type |-> "element", tiledDim |-> tiled[i],
            bound |-> bounds[tiled[i]], step |-> tileSize]]

\* The loopSpec with the tile loops outermost, before the non-tiled dimensions that
\* precede the first tiled one.
loopSpecOfTilesOutermost(op, order, tileSize, firstTiledIdx) ==
    LET bounds == op.loopBounds
        tileableDims == Range(op.tileableDims)
        tiled == SelectIn(order, tileableDims)
    IN [i \in 1..Len(tiled) |->
           [dim |-> "t" \o tiled[i], type |-> "tile", tiledDim |-> tiled[i],
            bound |-> bounds[tiled[i]], step |-> tileSize]]
       \o
       [i \in 1..Len(order) |->
           IF order[i] \in tileableDims
           THEN [dim |-> order[i], type |-> "element", tiledDim |-> order[i],
                 bound |-> bounds[order[i]], step |-> tileSize]
           ELSE [dim |-> order[i], type |-> "simple", tiledDim |-> order[i],
                 bound |-> bounds[order[i]], step |-> 1]]

\* The loopSpec array of generateTiledIterations (phases 1, 2 and 3).
loopSpecOf(op, order, tileSize, firstTiledIdx) ==
    LET bounds == op.loopBounds
        tileableDims == Range(op.tileableDims)
        tiled == SelectIn(order, tileableDims)
    IN [i \in 1..(firstTiledIdx - 1) |->
           [dim |-> order[i], type |-> "simple", tiledDim |-> order[i],
            bound |-> bounds[order[i]], step |-> 1]]
       \o
       [i \in 1..Len(tiled) |->
           [dim |-> "t" \o tiled[i], type |-> "tile", tiledDim |-> tiled[i],
            bound |-> bounds[tiled[i]], step |-> tileSize]]
       \o
       [i \in 1..(Len(order) - firstTiledIdx + 1) |->
           LET dim == order[firstTiledIdx + i - 1]
           IN IF dim \in tileableDims
              THEN [dim |-> dim, type |-> "element", tiledDim |-> dim,
                    bound |-> bounds[dim], step |-> tileSize]
              ELSE [dim |-> dim, type |-> "simple", tiledDim |-> dim,
                    bound |-> bounds[dim], step |-> 1]]

RECURSIVE TiledRecordAbsoluteOffset(_, _, _)
\* The leaf record with the index itself as local offset (no subtraction of the origin).
TiledRecordAbsoluteOffset(dims, tileableDims, currentIndices) ==
    IF Len(dims) = 0 THEN <<>>
    ELSE LET dim == Head(dims)
             rest == TiledRecordAbsoluteOffset(Tail(dims), tileableDims, currentIndices)
         IN IF dim \in tileableDims
            THEN (dim :> currentIndices[dim])
                 @@ (("t" \o dim) :> currentIndices["t" \o dim])
                 @@ (("l" \o dim) :> currentIndices[dim])
                 @@ rest
            ELSE (dim :> currentIndices[dim]) @@ rest

RECURSIVE TiledRecord(_, _, _)
\* The record a leaf of nest builds: every loop dimension and, for a tileable one,
\* its tile origin 't'+dim and local offset 'l'+dim.
TiledRecord(dims, tileableDims, currentIndices) ==
    IF Len(dims) = 0 THEN <<>>
    ELSE LET dim == Head(dims)
             rest == TiledRecord(Tail(dims), tileableDims, currentIndices)
         IN IF dim \in tileableDims
            THEN (dim :> currentIndices[dim])
                 @@ (("t" \o dim) :> currentIndices["t" \o dim])
                 @@ (("l" \o dim) :> (currentIndices[dim] - currentIndices["t" \o dim]))
                 @@ rest
            ELSE (dim :> currentIndices[dim]) @@ rest

RECURSIVE nestWithoutClamp(_, _, _, _)
\* nest whose element loop runs to tileBase + tileSize, not cut at the bound.
nestWithoutClamp(op, loopSpec, depth, currentIndices) ==
    IF depth = Len(loopSpec)
    THEN << TiledRecord(op.loopDims, Range(op.tileableDims), currentIndices) >>
    ELSE LET spec == loopSpec[depth + 1]
         IN CASE spec.type = "simple" ->
                   Flatten([n \in 1..spec.bound |->
                       nestWithoutClamp(op, loopSpec, depth + 1,
                                        (spec.dim :> (n - 1)) @@ currentIndices)])
              [] spec.type = "tile" ->
                   Flatten([n \in 1..((spec.bound + spec.step - 1) \div spec.step) |->
                       nestWithoutClamp(op, loopSpec, depth + 1,
                                        (spec.dim :> ((n - 1) * spec.step)) @@ currentIndices)])
              [] spec.type = "element" ->
                   LET tileBase == currentIndices["t" \o spec.tiledDim]
                       tileEnd == tileBase + spec.step
                   IN Flatten([n \in 1..(tileEnd - tileBase) |->
                          nestWithoutClamp(op, loopSpec, depth + 1,
                                           (spec.dim :> (tileBase + n - 1)) @@ currentIndices)])

RECURSIVE nest(_, _, _, _)
\* nest(depth, currentIndices) of generateTiledIterations; depth counts from 0.
nest(op, loopSpec, depth, currentIndices) ==
    IF depth = Len(loopSpec)
    THEN << TiledRecord(op.loopDims, Range(op.tileableDims), currentIndices) >>
    ELSE LET spec == loopSpec[depth + 1]
         IN CASE spec.type = "simple" ->
                   Flatten([n \in 1..spec.bound |->
                       nest(op, loopSpec, depth + 1,
                            (spec.dim :> (n - 1)) @@ currentIndices)])
              [] spec.type = "tile" ->
                   Flatten([n \in 1..((spec.bound + spec.step - 1) \div spec.step) |->
                       nest(op, loopSpec, depth + 1,
                            (spec.dim :> ((n - 1) * spec.step)) @@ currentIndices)])
              [] spec.type = "element" ->
                   LET tileBase == currentIndices["t" \o spec.tiledDim]
                       tileEnd == Min(tileBase + spec.step, spec.bound)
                   IN Flatten([n \in 1..(tileEnd - tileBase) |->
                          nest(op, loopSpec, depth + 1,
                               (spec.dim :> (tileBase + n - 1)) @@ currentIndices)])

RECURSIVE runsForeverExactEnd(_, _)
\* runsForever of a tile loop written `for (t = 0; t !== bound; t += step)`: it also
\* never ends when the step does not land on the bound.
runsForeverExactEnd(loopSpec, depth) ==
    IF depth = Len(loopSpec) THEN FALSE
    ELSE LET spec == loopSpec[depth + 1]
         IN IF spec.type = "element" THEN FALSE
            ELSE IF spec.bound <= 0 THEN FALSE
            ELSE IF spec.type = "tile" /\ (spec.step <= 0 \/ spec.bound % spec.step # 0)
            THEN TRUE
            ELSE runsForeverExactEnd(loopSpec, depth + 1)

RECURSIVE runsForever(_, _)
\* The loop nest loopSpec, from depth on, reaches a tile loop `for (t = 0; t < bound;
\* t += step)` with bound > 0 and step <= 0, which never ends.
runsForever(loopSpec, depth) ==
    IF depth = Len(loopSpec) THEN FALSE
    ELSE LET spec == loopSpec[depth + 1]
         IN IF spec.type = "element" THEN FALSE
            ELSE IF spec.bound <= 0 THEN FALSE
            ELSE IF spec.type = "tile" /\ spec.step <= 0 THEN TRUE
            ELSE runsForever(loopSpec, depth + 1)

\* generateTiledIterations that rejects a tile size which does not divide a tiled bound.
generateTiledIterationsValidating(op, loopOrder, tileSize) ==
    LET order == getProperty(op.loopOrders, loopOrder)
    IN CASE order.type = Undefined -> Thrown("Unknown loop order")
         [] order.type = "function" -> Thrown("TypeError")
         [] OTHER ->
                LET firstTiledIdx == findFirstTiled(order.value, Range(op.tileableDims))
                    loopSpec == loopSpecOf(op, order.value, tileSize, firstTiledIdx)
                IN IF firstTiledIdx = 0 THEN generateIterations(op, loopOrder)
                   ELSE IF tileSize < 1 THEN Thrown("Invalid tile size")
                   ELSE IF \E d \in Range(op.tileableDims) :
                               op.loopBounds[d] % tileSize # 0
                   THEN Thrown("Invalid tile size")
                   ELSE Returned(nest(op, loopSpec, 0, <<>>))

\* generateTiledIterations(op, loopOrder, tileSize).  An inherited function has no
\* findIndex: order.findIndex(...) throws a TypeError.
generateTiledIterations(op, loopOrder, tileSize) ==
    LET order == getProperty(op.loopOrders, loopOrder)
    IN CASE order.type = Undefined -> Thrown("Unknown loop order")
         [] order.type = "function" -> Thrown("TypeError")
         [] OTHER ->
                LET firstTiledIdx == findFirstTiled(order.value, Range(op.tileableDims))
                    loopSpec == loopSpecOf(op, order.value, tileSize, firstTiledIdx)
                IN IF firstTiledIdx = 0 THEN generateIterations(op, loopOrder)
                   ELSE IF runsForever(loopSpec, 0) THEN Diverged
                   ELSE Returned(nest(op, loopSpec, 0, <<>>))

(***************************************************************************)
(* Step engine (ui/state.js, ui/handlers.js).  A handler takes the engine  *)
(* e = [state, snapshots, animationId, frames, heap, error] and returns    *)
(* the engine after it ran.  Rendering and DOM updates keep no state of    *)
(* the simulation and are left out.                                        *)
(***************************************************************************)
MaxUndo == 2        \* Spec takes no forward step once the undo stack holds MaxUndo snapshots
MaxOver == 1        \* Spec jumps to the targets -MaxOver .. N + MaxOver

SnapshotHighWater == 100
SnapshotKeep == 50

\* export let operation = OPERATIONS[currentMode].create(), currentMode = 'matmul':
\* createMatmulOperation(MATRIX_SIZE, ELEMENT_SIZE)
operation == createMatmulOperation(matrixSize, ELEMENT_SIZE)

TensorNames == {operation.tensors[i].name : i \in DOMAIN operation.tensors}

\* state.cache = null
NullCache == [null |-> TRUE]

IsNull(c) == "null" \in DOMAIN c

\* createTensorState(op): matmul tensors have no layoutOptions, so 'row'.
createTensorState(op) ==
    [layouts |-> [n \in {op.tensors[i].name : i \in DOMAIN op.tensors} |-> "row"],
     stats |-> [n \in {op.tensors[i].name : i \in DOMAIN op.tensors} |->
                   [accesses |-> 0, hits |-> 0]]]

\* The engine when the modules have been loaded (ui/state.js).
initialEngine ==
    [state |-> [loopOrder |-> "ijk",
                tilingEnabled |-> FALSE,
                tileSize |-> 4,
                layouts |-> createTensorState(operation).layouts,
                elementsPerLine |-> 16,
                numCacheLines |-> 4,
                currentIteration |-> 0,
                isPlaying |-> FALSE,
                iterations |-> <<>>,
                cache |-> NullCache,
                stats |-> createTensorState(operation).stats,
                history |-> <<>>],
     snapshots |-> <<>>,
     animationId |-> 0,
     frames |-> {},
     heap |-> <<>>,
     error |-> FALSE]

\* generateAllIterations()
generateAllIterations(e) ==
    IF e.state.tilingEnabled
    THEN generateTiledIterations(operation, e.state.loopOrder, e.state.tileSize)
    ELSE generateIterations(operation, e.state.loopOrder)

RECURSIVE tensorLoopCountingEveryAccess(_, _, _, _)
\* The tensor loop that adds one to a tensor's hits at every access, hit or miss.
tensorLoopCountingEveryAccess(e, iter, idx, acc) ==
    IF idx > Len(operation.tensors) THEN acc
    ELSE LET tensor == operation.tensors[idx]
             address == getAccessAddress(tensor, iter, e.state.layouts,
                                         operation.elementSize)
             a == access(acc.cache, acc.heap, address)
             hit == a.ret
         IN tensorLoopCountingEveryAccess(e, iter, idx + 1,
                [cache |-> a.cache,
                 heap |-> a.heap,
                 stats |-> [acc.stats EXCEPT
                               ![tensor.name].accesses = @ + 1,
                               ![tensor.name].hits = @ + 1],
                 result |-> (tensor.name :> hit) @@ acc.result])

RECURSIVE tensorLoop(_, _, _, _)
\* The loop `for (const tensor of operation.tensors)` of executeStep, from tensor idx on;
\* acc = [cache, heap, stats, result].
tensorLoop(e, iter, idx, acc) ==
    IF idx > Len(operation.tensors) THEN acc
    ELSE LET tensor == operation.tensors[idx]
             address == getAccessAddress(tensor, iter, e.state.layouts,
                                         operation.elementSize)
             a == access(acc.cache, acc.heap, address)
             hit == a.ret
         IN tensorLoop(e, iter, idx + 1,
                [cache |-> a.cache,
                 heap |-> a.heap,
                 stats |-> [acc.stats EXCEPT
                               ![tensor.name].accesses = @ + 1,
                               ![tensor.name].hits = @ + (IF hit THEN 1 ELSE 0)],
                 result |-> (tensor.name :> hit) @@ acc.result])

\* What executeStep returns (null when no step is left, or when it threw).
executeStepResult(e) ==
    IF e.state.currentIteration >= Len(e.state.iterations) \/ IsNull(e.state.cache)
    THEN <<>>
    ELSE tensorLoop(e, e.state.iterations[e.state.currentIteration + 1], 1,
                    [cache |-> e.state.cache, heap |-> e.heap,
                     stats |-> e.state.stats, result |-> <<>>]).result

\* executeStep(): the engine after it.  state.cache.access on a null cache throws.
executeStep(e) ==
    IF e.state.currentIteration >= Len(e.state.iterations)
    THEN e
    ELSE IF IsNull(e.state.cache)
    THEN [e EXCEPT !.error = TRUE]
    ELSE LET iter == e.state.iterations[e.state.currentIteration + 1]
             acc == tensorLoop(e, iter, 1,
                               [cache |-> e.state.cache, heap |-> e.heap,
                                stats |-> e.state.stats, result |-> <<>>])
         IN [e EXCEPT !.state.cache = acc.cache,
                      !.heap = acc.heap,
                      !.state.stats = acc.stats,
                      !.state.history = Append(@, acc.result),
                      !.state.currentIteration = @ + 1]

\* stopAnimation without cancelAnimationFrame: the requested frame stays pending.
stopAnimationLeavingFrame(e) ==
    [e EXCEPT !.state.isPlaying = FALSE, !.animationId = 0]

\* stopAnimation()
stopAnimation(e) ==
    IF e.animationId # 0
    THEN [e EXCEPT !.state.isPlaying = FALSE,
                   !.frames = @ \ {e.animationId},
                   !.animationId = 0]
    ELSE [e EXCEPT !.state.isPlaying = FALSE]

\* resetSimulation without the call of state.cache.reset().
resetSimulationKeepingCache(e) ==
    LET s == stopAnimation(e)
    IN [s EXCEPT !.state.currentIteration = 0,
                 !.state.history = <<>>,
                 !.snapshots = <<>>,
                 !.state.stats = [n \in DOMAIN @ |->
                                     IF n \in TensorNames
                                     THEN [accesses |-> 0, hits |-> 0] ELSE @[n]]]

\* resetSimulation()
resetSimulation(e) ==
    LET s == stopAnimation(e)
        t == [s EXCEPT !.state.currentIteration = 0,
                       !.state.history = <<>>,
                       !.snapshots = <<>>,
                       !.state.stats = [n \in DOMAIN @ |->
                                           IF n \in TensorNames
                                           THEN [accesses |-> 0, hits |-> 0] ELSE @[n]]]
    IN IF IsNull(t.state.cache)
       THEN t
       ELSE LET r == reset(t.state.cache, t.heap)
            IN [t EXCEPT !.state.cache = r.cache, !.heap = r.heap]

RECURSIVE jumpLoop(_, _)
\* while (state.currentIteration < targetIteration) executeStep();
jumpLoop(e, targetIteration) ==
    IF e.state.currentIteration < targetIteration /\ ~e.error
    THEN jumpLoop(executeStep(e), targetIteration)
    ELSE e

\* jumpToIteration that clamps the target to the last index, iterations.length - 1.
jumpToIterationOffByOne(e, targetIteration) ==
    LET target == Max(0, Min(targetIteration, Len(e.state.iterations) - 1))
        s == IF target < e.state.currentIteration THEN resetSimulation(e) ELSE e
    IN jumpLoop(s, target)

\* jumpToIteration that moves the cursor back without a reset and a replay.
jumpToIterationNoReplay(e, targetIteration) ==
    LET target == Max(0, Min(targetIteration, Len(e.state.iterations)))
    IN IF target < e.state.currentIteration
       THEN [e EXCEPT !.state.currentIteration = target,
                      !.state.history = SubSeq(@, 1, target),
                      !.snapshots = <<>>]
       ELSE jumpLoop(e, target)

\* jumpToIteration that resets also when the target is the cursor (<= for <).
jumpToIterationAlwaysReset(e, targetIteration) ==
    LET target == Max(0, Min(targetIteration, Len(e.state.iterations)))
        s == IF target <= e.state.currentIteration THEN resetSimulation(e) ELSE e
    IN jumpLoop(s, target)

\* jumpToIteration whose reset before a backward jump leaves the undo stack as it was.
jumpToIterationKeepingUndo(e, targetIteration) ==
    LET target == Max(0, Min(targetIteration, Len(e.state.iterations)))
        s == IF target < e.state.currentIteration
             THEN [resetSimulation(e) EXCEPT !.snapshots = e.snapshots]
             ELSE e
    IN jumpLoop(s, target)

\* jumpToIteration(targetIteration)
jumpToIteration(e, targetIteration) ==
    LET target == Max(0, Min(targetIteration, Len(e.state.iterations)))
        s == IF target < e.state.currentIteration THEN resetSimulation(e) ELSE e
    IN jumpLoop(s, target)

\* pushSnapshot of { cache: state.cache, ... }: the cache object itself, not a snapshot.
pushSnapshotWithoutCopy(e) ==
    [e EXCEPT !.snapshots = Append(@, [cache |-> [lines |-> e.state.cache.lines,
                                                  totalAccesses |-> e.state.cache.totalAccesses,
                                                  hits |-> e.state.cache.hits,
                                                  misses |-> e.state.cache.misses],
                                       stats |-> e.state.stats,
                                       historyLength |-> Len(e.state.history),
                                       iteration |-> e.state.currentIteration])]

\* The snapshot stepForward and animate push: { cache: state.cache.snapshot(),
\* stats: JSON.parse(JSON.stringify(state.stats)), historyLength, iteration }.
pushSnapshot(e) ==
    LET c == snapshot(e.state.cache, e.heap)
    IN [e EXCEPT !.heap = c.heap,
                 !.snapshots = Append(@, [cache |-> c.snap,
                                          stats |-> e.state.stats,
                                          historyLength |-> Len(e.state.history),
                                          iteration |-> e.state.currentIteration])]

\* stepForward without the test of the cursor against iterations.length.
stepForwardUnguarded(e) ==
    IF IsNull(e.state.cache)
    THEN [e EXCEPT !.error = TRUE]
    ELSE executeStep(pushSnapshot(e))

\* stepForward()
stepForward(e) ==
    IF e.state.currentIteration < Len(e.state.iterations)
    THEN IF IsNull(e.state.cache)
         THEN [e EXCEPT !.error = TRUE]
         ELSE executeStep(pushSnapshot(e))
    ELSE e

\* stepBackward that does not truncate the history.
stepBackwardKeepingHistory(e) ==
    IF Len(e.snapshots) > 0
    THEN LET snap == e.snapshots[Len(e.snapshots)]
             r == restore(e.state.cache, e.heap, snap.cache)
         IN [e EXCEPT !.snapshots = SubSeq(@, 1, Len(@) - 1),
                      !.state.cache = r.cache,
                      !.heap = r.heap,
                      !.state.stats = snap.stats,
                      !.state.currentIteration = snap.iteration]
    ELSE e

\* stepBackward that pops without looking at the length: on an empty stack snap is
\* undefined and snap.cache throws.
stepBackwardUnguarded(e) ==
    IF Len(e.snapshots) > 0
    THEN LET snap == e.snapshots[Len(e.snapshots)]
             r == restore(e.state.cache, e.heap, snap.cache)
         IN [e EXCEPT !.snapshots = SubSeq(@, 1, Len(@) - 1),
                      !.state.cache = r.cache,
                      !.heap = r.heap,
                      !.state.stats = snap.stats,
                      !.state.history = SubSeq(@, 1, Min(Len(@), snap.historyLength)),
                      !.state.currentIteration = snap.iteration]
    ELSE [e EXCEPT !.error = TRUE]

\* stepBackward()
stepBackward(e) ==
    IF Len(e.snapshots) > 0
    THEN LET snap == e.snapshots[Len(e.snapshots)]
             r == restore(e.state.cache, e.heap, snap.cache)
         IN [e EXCEPT !.snapshots = SubSeq(@, 1, Len(@) - 1),
                      !.state.cache = r.cache,
                      !.heap = r.heap,
                      !.state.stats = snap.stats,
                      !.state.history = SubSeq(@, 1, Min(Len(@), snap.historyLength)),
                      !.state.currentIteration = snap.iteration]
    ELSE e

\* requestAnimationFrame(animate): a new pending frame, whose id becomes animationId.
requestFrame(e) ==
    LET id == CHOOSE n \in 1..(Cardinality(e.frames) + 1) :
                  n \notin e.frames /\ \A m \in 1..(n - 1) : m \in e.frames
    IN [e EXCEPT !.frames = @ \cup {id}, !.animationId = id]

\* snapshots.slice(-SnapshotKeep)
sliceLast(s, n) == SubSeq(s, Max(1, Len(s) - n + 1), Len(s))

\* animate that does not call stopAnimation when the cursor is at the end.
animateWithoutStop(e, due) ==
    IF ~e.state.isPlaying THEN e
    ELSE LET stepped ==
                 IF ~due THEN e
                 ELSE IF e.state.currentIteration < Len(e.state.iterations)
                 THEN LET trimmed == IF Len(e.snapshots) > SnapshotHighWater
                                     THEN [e EXCEPT !.snapshots =
                                                        sliceLast(@, SnapshotKeep)]
                                     ELSE e
                      IN executeStep(pushSnapshot(trimmed))
                 ELSE e
         IN IF stepped.state.isPlaying THEN requestFrame(stepped) ELSE stepped

\* animate(timestamp), run by the browser for a pending frame; due is
\* timestamp - lastFrameTime >= 1000 / state.speed.
animate(e, due) ==
    IF ~e.state.isPlaying THEN e
    ELSE LET stepped ==
                 IF ~due THEN e
                 ELSE IF e.state.currentIteration < Len(e.state.iterations)
                 THEN LET trimmed == IF Len(e.snapshots) > SnapshotHighWater
                                     THEN [e EXCEPT !.snapshots =
                                                        sliceLast(@, SnapshotKeep)]
                                     ELSE e
                      IN executeStep(pushSnapshot(trimmed))
                 ELSE stopAnimation(e)
         IN IF stepped.state.isPlaying THEN requestFrame(stepped) ELSE stepped

\* startAnimation()
startAnimation(e) ==
    IF ~e.state.isPlaying /\ e.state.currentIteration < Len(e.state.iterations)
    THEN requestFrame([e EXCEPT !.state.isPlaying = TRUE])
    ELSE e

\* togglePlayPause()
togglePlayPause(e) ==
    IF e.state.isPlaying THEN stopAnimation(e) ELSE startAnimation(e)

\* applyConfiguration(), reading cfg from the controls.
applyConfiguration(e, cfg) ==
    LET s == [e EXCEPT !.state.loopOrder = cfg.loopOrder,
                       !.state.tilingEnabled = cfg.tilingEnabled,
                       !.state.tileSize = cfg.tileSize,
                       !.state.elementsPerLine = cfg.elementsPerLine,
                       !.state.numCacheLines = cfg.numCacheLines,
                       !.state.layouts = [n \in DOMAIN @ |->
                                             IF n \in DOMAIN cfg.layouts
                                             THEN cfg.layouts[n] ELSE @[n]]]
        cacheLineSize == s.state.elementsPerLine * ELEMENT_SIZE
        cacheCapacity == cacheLineSize * s.state.numCacheLines
        its == generateAllIterations(s)
        c == CacheSimulator(s.heap, cacheCapacity, cacheLineSize)
    IN IF its.threw
       THEN [s EXCEPT !.error = TRUE]
       ELSE resetSimulation([s EXCEPT !.state.iterations = its.value,
                                      !.state.cache = c.cache,
                                      !.heap = c.heap])

(***************************************************************************)
(* SpecCache: one CacheSimulator driven directly by a caller, who keeps    *)
(* the last snapshot it took.  The engine stays as loaded.                 *)
(***************************************************************************)
Addresses == 0..MaxAddr

\* The line of an address, by definition: the address rounded down to a multiple of lineSize.
LineOf(address) == address - (address % cache.lineSize)

\* s without x, order kept.
Without(s, x) == SelectSeq(s, LAMBDA y : y # x)

\* The lines of the cache, by value.
Lines == heap[cache.lines]

\* A cache that holds, in an array of its own, what v records.
TwinOf(v) ==
    [active |-> TRUE,
     cache |-> [cache EXCEPT !.lines = 0, !.totalAccesses = v.totalAccesses,
                             !.hits = v.hits, !.misses = v.misses],
     heap |-> (0 :> v.lines)]

NoTwin == [active |-> FALSE]

LiveCache(c, sv) == {c.lines} \cup {sv[k].lines : k \in DOMAIN sv}

\* No generator has been called.
NoGen == [call |-> "none"]

EngineIdle ==
    /\ state = initialEngine.state
    /\ snapshots = initialEngine.snapshots
    /\ animationId = initialEngine.animationId
    /\ frames = initialEngine.frames
    /\ error = initialEngine.error
    /\ event = [op |-> "load", arg |-> 0, dir |-> 0]
    /\ gen = NoGen

InitCache ==
    /\ \E capacityBytes \in 0..MaxCapacity, lineSize \in 1..MaxLineSize :
           LET n == CacheSimulator(<<>>, capacityBytes, lineSize)
           IN cache = n.cache /\ heap = n.heap
    /\ saved = <<>>
    /\ ret = FALSE
    /\ call = [op |-> "new", arg |-> 0]
    /\ touched = <<>>
    /\ savedAt = <<>>
    /\ twin = NoTwin
    /\ twinRet = FALSE
    /\ matrixSize = MatSize
    /\ EngineIdle

Access(address) ==
    /\ cache.totalAccesses < MaxAccesses
    /\ LET a == access(cache, heap, address)
       IN /\ cache' = a.cache
          /\ heap' = Collect(a.heap, LiveCache(a.cache, saved))
          /\ ret' = a.ret
    /\ call' = [op |-> "access", arg |-> address]
    /\ IF twin.active
       THEN LET t == access(twin.cache, twin.heap, address)
            IN /\ twin' = [active |-> TRUE, cache |-> t.cache, heap |-> t.heap]
               /\ twinRet' = t.ret
       ELSE UNCHANGED <<twin, twinRet>>
    /\ UNCHANGED <<saved, savedAt, touched>>
    /\ UNCHANGED engineVars
    /\ UNCHANGED <<matrixSize, gen>>

IsAddressCached(address) ==
    /\ LET q == isAddressCached(cache, heap, address)
       IN /\ cache' = q.cache
          /\ heap' = Collect(q.heap, LiveCache(q.cache, saved))
          /\ ret' = q.ret
    /\ call' = [op |-> "isAddressCached", arg |-> 0]
    /\ UNCHANGED <<saved, touched, savedAt, twin, twinRet>>
    /\ UNCHANGED engineVars
    /\ UNCHANGED <<matrixSize, gen>>

Reset ==
    /\ LET r == reset(cache, heap)
       IN /\ cache' = r.cache
          /\ heap' = Collect(r.heap, LiveCache(r.cache, saved))
    /\ ret' = FALSE
    /\ call' = [op |-> "reset", arg |-> IF Len(Lines) > 0 THEN 1 ELSE 0]
    /\ twin' = NoTwin
    /\ twinRet' = FALSE
    /\ UNCHANGED <<saved, savedAt, touched>>
    /\ UNCHANGED engineVars
    /\ UNCHANGED <<matrixSize, gen>>

Snapshot ==
    /\ LET s == snapshot(cache, heap)
       IN /\ saved' = <<s.snap>>
          /\ heap' = Collect(s.heap, LiveCache(cache, <<s.snap>>))
    /\ savedAt' = <<CacheValue(cache, heap)>>
    /\ ret' = FALSE
    /\ call' = [op |-> "snapshot", arg |-> 0]
    /\ UNCHANGED <<cache, touched, twin, twinRet>>
    /\ UNCHANGED engineVars
    /\ UNCHANGED <<matrixSize, gen>>

Restore ==
    /\ Len(saved) > 0
    /\ LET r == restore(cache, heap, saved[1])
       IN /\ cache' = r.cache
          /\ heap' = Collect(r.heap, LiveCache(r.cache, saved))
    /\ ret' = FALSE
    /\ call' = [op |-> "restore",
                arg |-> IF CacheValue(cache, heap) # savedAt[1] THEN 1 ELSE 0]
    /\ twin' = TwinOf(savedAt[1])
    /\ twinRet' = FALSE
    /\ UNCHANGED <<saved, savedAt, touched>>
    /\ UNCHANGED engineVars
    /\ UNCHANGED <<matrixSize, gen>>

NextCache ==
    \/ \E address \in Addresses : Access(address)
    \/ \E address \in Addresses : IsAddressCached(address)
    \/ Reset
    \/ Snapshot
    \/ Restore

SpecCache == InitCache /\ [][NextCache]_vars

(***************************************************************************)
(* SpecLRU: the same cache under access, isAddressCached and reset only,   *)
(* with the recency order of the lines touched since the last reset kept   *)
(* in `touched`.                                                           *)
(***************************************************************************)
AccessLRU(address) ==
    /\ cache.totalAccesses < MaxAccesses
    /\ LET a == access(cache, heap, address)
       IN /\ cache' = a.cache
          /\ heap' = Collect(a.heap, LiveCache(a.cache, saved))
          /\ ret' = a.ret
    /\ call' = [op |-> "access", arg |-> address]
    /\ touched' = Append(Without(touched, LineOf(address)), LineOf(address))
    /\ UNCHANGED <<saved, savedAt, twin, twinRet>>
    /\ UNCHANGED engineVars
    /\ UNCHANGED <<matrixSize, gen>>

ResetLRU ==
    /\ LET r == reset(cache, heap)
       IN /\ cache' = r.cache
          /\ heap' = Collect(r.heap, LiveCache(r.cache, saved))
    /\ ret' = FALSE
    /\ call' = [op |-> "reset", arg |-> 0]
    /\ touched' = <<>>
    /\ UNCHANGED <<saved, savedAt, twin, twinRet>>
    /\ UNCHANGED engineVars
    /\ UNCHANGED <<matrixSize, gen>>

IsAddressCachedLRU(address) ==
    /\ LET q == isAddressCached(cache, heap, address)
       IN /\ cache' = q.cache
          /\ heap' = Collect(q.heap, LiveCache(q.cache, saved))
          /\ ret' = q.ret
    /\ call' = [op |-> "isAddressCached", arg |-> address]
    /\ UNCHANGED <<saved, touched, savedAt, twin, twinRet>>
    /\ UNCHANGED engineVars
    /\ UNCHANGED <<matrixSize, gen>>

NextLRU ==
    \/ \E address \in Addresses : AccessLRU(address)
    \/ \E address \in Addresses : IsAddressCachedLRU(address)
    \/ ResetLRU

SpecLRU == InitCache /\ [][NextLRU]_vars

(***************************************************************************)
(* Spec: the step engine under the events of the page: the buttons and     *)
(* keys (step forward/backward, play/pause, reset), the jump field, the    *)
(* Apply button and the animation frames the browser delivers.             *)
(***************************************************************************)
\* The values the configuration controls are set to when Apply is pressed.
Configs ==
    { [loopOrder |-> "ijk", tilingEnabled |-> FALSE, tileSize |-> 2,
       elementsPerLine |-> 1, numCacheLines |-> 2,
       layouts |-> [A |-> "row", B |-> "row", C |-> "row"]],
      [loopOrder |-> "kji", tilingEnabled |-> FALSE, tileSize |-> 2,
       elementsPerLine |-> 2, numCacheLines |-> 4,
       layouts |-> [A |-> "row", B |-> "col", C |-> "row"]],
      [loopOrder |-> "ikj", tilingEnabled |-> TRUE, tileSize |-> 2,
       elementsPerLine |-> 2, numCacheLines |-> 3,
       layouts |-> [A |-> "col", B |-> "row", C |-> "col"]] }

\* The engine, as one value.
Eng ==
    [state |-> state, snapshots |-> snapshots, animationId |-> animationId,
     frames |-> frames, heap |-> heap, error |-> error]

\* The line arrays the engine e can still reach.
LiveEngine(e) ==
    (IF IsNull(e.state.cache) THEN {} ELSE {e.state.cache.lines})
    \cup {e.snapshots[i].cache.lines : i \in DOMAIN e.snapshots}

\* The handler of event op(arg) left the engine as e.
Become(e, op, arg) ==
    /\ state' = e.state
    /\ snapshots' = e.snapshots
    /\ animationId' = e.animationId
    /\ frames' = e.frames
    /\ error' = e.error
    /\ heap' = Collect(e.heap, LiveEngine(e))
    /\ event' = [op |-> op, arg |-> arg,
                 dir |-> IF e.state.currentIteration < state.currentIteration THEN -1
                         ELSE IF e.state.currentIteration > state.currentIteration THEN 1
                         ELSE 0]
    /\ UNCHANGED cacheVars
    /\ UNCHANGED <<matrixSize, gen>>

\* N, the number of iterations
N == Len(state.iterations)

cursor == state.currentIteration

JumpTargets == (0 - MaxOver)..(N + MaxOver)

\* The page when its modules have been loaded and nothing has been configured yet.
Loaded ==
    /\ state = initialEngine.state
    /\ snapshots = initialEngine.snapshots
    /\ animationId = initialEngine.animationId
    /\ frames = initialEngine.frames
    /\ error = initialEngine.error
    /\ heap = initialEngine.heap
    /\ event = [op |-> "load", arg |-> 0, dir |-> 0]
    /\ cache = NullCache
    /\ saved = <<>>
    /\ ret = FALSE
    /\ call = [op |-> "none", arg |-> 0]
    /\ touched = <<>>
    /\ savedAt = <<>>
    /\ twin = NoTwin
    /\ twinRet = FALSE
    /\ gen = NoGen

Init ==
    /\ matrixSize = MatSize
    /\ Loaded

ApplyConfiguration(cfg) ==
    Become(applyConfiguration(Eng, cfg), "applyConfiguration", 0)

StepForward ==
    /\ Len(snapshots) < MaxUndo
    /\ Become(stepForward(Eng), "stepForward", 0)

StepBackward ==
    Become(stepBackward(Eng), "stepBackward",
           IF event.op = "stepForward" /\ event.dir = 1 THEN 1 ELSE 0)

JumpToIteration(target) ==
    Become(jumpToIteration(Eng, target), "jumpToIteration", target)

ResetSimulation ==
    Become(resetSimulation(Eng), "resetSimulation", 0)

TogglePlayPause ==
    Become(togglePlayPause(Eng), "togglePlayPause", 0)

\* The browser delivers the pending frame id and runs animate.
AnimateFrame(id, due) ==
    /\ id \in frames
    /\ Len(snapshots) < MaxUndo
    /\ Become(animate([Eng EXCEPT !.frames = @ \ {id}], due),
              "animate", IF due THEN 1 ELSE 0)

Next ==
    \/ \E cfg \in Configs : ApplyConfiguration(cfg)
    \/ StepForward
    \/ StepBackward
    \/ \E target \in JumpTargets : JumpToIteration(target)
    \/ ResetSimulation
    \/ TogglePlayPause
    \/ \E id \in frames, due \in BOOLEAN : AnimateFrame(id, due)

Spec == Init /\ [][Next]_vars

(***************************************************************************)
(* SpecUndo: the page as shipped (MATRIX_SIZE = 12, the configuration of   *)
(* ui/state.js), stepped forward by the Step button and by playback for    *)
(* the first MaxSteps iterations.                                          *)
(***************************************************************************)
MaxSteps == 103     \* SpecUndo stops stepping once the cursor is at MaxSteps

\* The values of the configuration controls when init() calls applyConfiguration.
PageConfig ==
    [loopOrder |-> initialEngine.state.loopOrder,
     tilingEnabled |-> initialEngine.state.tilingEnabled,
     tileSize |-> initialEngine.state.tileSize,
     elementsPerLine |-> initialEngine.state.elementsPerLine,
     numCacheLines |-> initialEngine.state.numCacheLines,
     layouts |-> initialEngine.state.layouts]

InitUndo ==
    /\ matrixSize = MATRIX_SIZE
    /\ Loaded

\* init(): applyConfiguration(), once, when the page loads.
ApplyOnLoad ==
    /\ IsNull(state.cache)
    /\ Become(applyConfiguration(Eng, PageConfig), "applyConfiguration", 0)

\* The Step button.
StepForwardButton ==
    /\ cursor < MaxSteps
    /\ Become(stepForward(Eng), "stepForward", 0)

\* Play / Pause.
PlayPauseButton ==
    Become(togglePlayPause(Eng), "togglePlayPause", 0)

\* The browser delivers the pending frame id and runs animate.
PlaybackTick(id, due) ==
    /\ id \in frames
    /\ cursor < MaxSteps
    /\ Become(animate([Eng EXCEPT !.frames = @ \ {id}], due),
              "animate", IF due THEN 1 ELSE 0)

NextUndo ==
    \/ ApplyOnLoad
    \/ StepForwardButton
    \/ PlayPauseButton
    \/ \E id \in frames, due \in BOOLEAN : PlaybackTick(id, due)

SpecUndo == InitUndo /\ [][NextUndo]_vars

(***************************************************************************)
(* SpecGen: the two generators called on matmul and conv2d operations of   *)
(* small dimensions, with every key of loopOrders, a key that is not one,  *)
(* and the tile sizes 0..MaxTile.                                          *)
(***************************************************************************)
MaxGenSize == 4     \* SpecGen builds matmul operations of size 1..MaxGenSize
MaxInput == 3       \* SpecGen builds conv2d operations with inputH, inputW in 1..MaxInput
MaxChannels == 2    \* ... and channels_in, channels_out in 1..MaxChannels
MaxTile == 4        \* SpecGen calls generateTiledIterations with tileSize in 0..MaxTile

\* conv2d configurations with positive dimensions: the kernel fits in the input, so that
\* outputH and outputW are at least 1.
ConvConfigs ==
    { cfg \in [inputH : 1..MaxInput, inputW : 1..MaxInput,
               channels_in : 1..MaxChannels, channels_out : 1..MaxChannels,
               kernelH : 1..MaxInput, kernelW : 1..MaxInput,
               elementSize : {ELEMENT_SIZE}] :
          cfg.kernelH <= cfg.inputH /\ cfg.kernelW <= cfg.inputW }

GenOps ==
    { createMatmulOperation(size, ELEMENT_SIZE) : size \in 1..MaxGenSize }
    \cup { createConv2dOperation(cfg) : cfg \in ConvConfigs }

\* The loop orders generators are called with: the keys of op.loopOrders, a name that no
\* object has, and the names every object inherits.
GenKeys(op) == (DOMAIN op.loopOrders) \cup {"unknown"} \cup DOMAIN InheritedFunctions

\* The caller holds an operation, a loop order and a tile size, and has called nothing yet.
InitGen ==
    /\ matrixSize = MatSize
    /\ state = initialEngine.state
    /\ snapshots = initialEngine.snapshots
    /\ animationId = initialEngine.animationId
    /\ frames = initialEngine.frames
    /\ error = initialEngine.error
    /\ heap = initialEngine.heap
    /\ event = [op |-> "load", arg |-> 0, dir |-> 0]
    /\ cache = NullCache
    /\ saved = <<>>
    /\ ret = FALSE
    /\ call = [op |-> "none", arg |-> 0]
    /\ touched = <<>>
    /\ savedAt = <<>>
    /\ twin = NoTwin
    /\ twinRet = FALSE
    /\ \E op \in GenOps : \E loopOrder \in GenKeys(op) : \E tileSize \in 0..MaxTile :
           gen = [call |-> "none", op |-> op, loopOrder |-> loopOrder,
                  tileSize |-> tileSize]

\* generateIterations(op, loopOrder)
GenerateIterations ==
    /\ gen.call = "none"
    /\ LET r == generateIterations(gen.op, gen.loopOrder)
       IN gen' = [call |-> "generateIterations", op |-> gen.op,
                  loopOrder |-> gen.loopOrder, tileSize |-> gen.tileSize,
                  threw |-> r.threw, message |-> r.message, diverged |-> r.diverged,
                  value |-> r.value]
    /\ UNCHANGED <<matrixSize, heap>>
    /\ UNCHANGED cacheVars
    /\ UNCHANGED engineVars

\* generateTiledIterations(op, loopOrder, tileSize)
GenerateTiledIterations ==
    /\ gen.call = "none"
    /\ LET r == generateTiledIterations(gen.op, gen.loopOrder, gen.tileSize)
       IN gen' = [call |-> "generateTiledIterations", op |-> gen.op,
                  loopOrder |-> gen.loopOrder, tileSize |-> gen.tileSize,
                  threw |-> r.threw, message |-> r.message, diverged |-> r.diverged,
                  value |-> r.value]
    /\ UNCHANGED <<matrixSize, heap>>
    /\ UNCHANGED cacheVars
    /\ UNCHANGED engineVars

NextGen ==
    \/ GenerateIterations
    \/ GenerateTiledIterations

SpecGen == InitGen /\ [][NextGen]_vars

(***************************************************************************)
(* SpecPlay: playback left alone.  init() applies a configuration, the     *)
(* user may seek once, then starts playback, and from then on only the     *)
(* browser acts: it delivers the pending frame, with a timestamp that has  *)
(* reached the interval (due) or not.  Timestamps advance and a tick that  *)
(* is not due leaves lastFrameTime alone, so a due tick comes as long as a *)
(* frame is pending: weak fairness of the due tick.  `event.arg` is 0 for  *)
(* a tick that is not due and alternates between 1 and 2 over the due      *)
(* ticks, so that every due tick changes `event`.                          *)
(***************************************************************************)
\* init(): applyConfiguration with the values of the controls.
Configure(cfg) ==
    /\ event.op = "load"
    /\ Become(applyConfiguration(Eng, cfg), "applyConfiguration", 0)

\* The user moves the slider once before playing.
Seek(target) ==
    /\ event.op = "applyConfiguration"
    /\ Become(jumpToIteration(Eng, target), "jumpToIteration", target)

\* The user starts playback.
Play ==
    /\ event.op \in {"applyConfiguration", "jumpToIteration"}
    /\ Become(startAnimation(Eng), "startAnimation", 0)

\* The browser delivers the pending frame id and runs animate.
Tick(id, due) ==
    /\ id \in frames
    /\ Become(animate([Eng EXCEPT !.frames = @ \ {id}], due),
              "animate", IF ~due THEN 0 ELSE IF event.arg = 1 THEN 2 ELSE 1)

\* A due tick, told by what it leaves in `event`: the steps of NextPlay that satisfy
\* DueTick are the steps Tick(id, TRUE), and one is possible exactly when a frame is
\* pending.
DueTick ==
    /\ frames # {}
    /\ \E arg \in {1, 2}, dir \in {-1, 0, 1} :
           event' = [op |-> "animate", arg |-> arg, dir |-> dir]

NextPlay ==
    \/ \E cfg \in Configs : Configure(cfg)
    \/ \E target \in 0..N : Seek(target)
    \/ Play
    \/ \E id \in frames, due \in BOOLEAN : Tick(id, due)

SpecPlay ==
    /\ Init
    /\ [][NextPlay]_vars
    /\ WF_event(DueTick)

(***************************************************************************)
(* SpecOps: the two operation factories called with small sizes and        *)
(* dimensions, among them sizes <= 0 and kernels larger than the input.    *)
(***************************************************************************)
MaxNegative == 1    \* SpecOps builds matmul operations of size -MaxNegative..MaxGenSize

\* conv2d configurations with every given extent at least 1, the kernel fitting or not.
AnyConvConfigs ==
    [inputH : 1..MaxInput, inputW : 1..MaxInput,
     channels_in : 1..MaxChannels, channels_out : 1..MaxChannels,
     kernelH : 1..MaxInput, kernelW : 1..MaxInput,
     elementSize : {ELEMENT_SIZE}]

\* The caller holds the arguments of a factory and has called nothing yet.
InitOps ==
    /\ matrixSize = MatSize
    /\ state = initialEngine.state
    /\ snapshots = initialEngine.snapshots
    /\ animationId = initialEngine.animationId
    /\ frames = initialEngine.frames
    /\ error = initialEngine.error
    /\ heap = initialEngine.heap
    /\ event = [op |-> "load", arg |-> 0, dir |-> 0]
    /\ cache = NullCache
    /\ saved = <<>>
    /\ ret = FALSE
    /\ call = [op |-> "none", arg |-> 0]
    /\ touched = <<>>
    /\ savedAt = <<>>
    /\ twin = NoTwin
    /\ twinRet = FALSE
    /\ \/ \E size \in (0 - MaxNegative)..MaxGenSize :
              gen = [call |-> "none", factory |-> "createMatmulOperation", size |-> size]
       \/ \E config \in AnyConvConfigs :
              gen = [call |-> "none", factory |-> "createConv2dOperation",
                     config |-> config]

\* createMatmulOperation(size, ELEMENT_SIZE): no statement of it throws.
CreateMatmulOperation ==
    /\ gen.call = "none"
    /\ gen.factory = "createMatmulOperation"
    /\ gen' = [call |-> "createMatmulOperation", size |-> gen.size, threw |-> FALSE,
               op |-> createMatmulOperation(gen.size, ELEMENT_SIZE)]
    /\ UNCHANGED <<matrixSize, heap>>
    /\ UNCHANGED cacheVars
    /\ UNCHANGED engineVars

\* createConv2dOperation(config): no statement of it throws.
CreateConv2dOperation ==
    /\ gen.call = "none"
    /\ gen.factory = "createConv2dOperation"
    /\ gen' = [call |-> "createConv2dOperation", config |-> gen.config, threw |-> FALSE,
               op |-> createConv2dOperation(gen.config)]
    /\ UNCHANGED <<matrixSize, heap>>
    /\ UNCHANGED cacheVars
    /\ UNCHANGED engineVars

NextOps ==
    \/ CreateMatmulOperation
    \/ CreateConv2dOperation

SpecOps == InitOps /\ [][NextOps]_vars

(***************************************************************************)
(* SpecLevel: a cache of either class of the repository, the boolean one   *)
(* or the level-tagged one, under access and isAddressCached.  `ret` holds *)
(* the returned JavaScript value with its type.                            *)
(***************************************************************************)
IsLevelTagged(c) == "level" \in DOMAIN c

InitLevel ==
    /\ \E capacityBytes \in 0..MaxCapacity, lineSize \in 1..MaxLineSize :
           \/ LET n == CacheSimulator(<<>>, capacityBytes, lineSize)
              IN cache = n.cache /\ heap = n.heap
           \/ \E level \in Levels :
                  LET n == CacheSimulatorLevel(<<>>, capacityBytes, lineSize, level)
                  IN cache = n.cache /\ heap = n.heap
    /\ saved = <<>>
    /\ ret = JsNull
    /\ call = [op |-> "new", arg |-> 0]
    /\ touched = <<>>
    /\ savedAt = <<>>
    /\ twin = NoTwin
    /\ twinRet = FALSE
    /\ matrixSize = MatSize
    /\ EngineIdle

\* cache.access(address), on whichever class the cache is of.
AccessWired(address) ==
    /\ cache.totalAccesses < MaxAccesses
    /\ IF IsLevelTagged(cache)
       THEN LET a == accessLevel(cache, heap, address)
            IN cache' = a.cache /\ heap' = a.heap /\ ret' = a.ret
       ELSE LET a == access(cache, heap, address)
            IN cache' = a.cache /\ heap' = a.heap /\ ret' = JsBoolean(a.ret)
    /\ call' = [op |-> "access", arg |-> address]
    /\ UNCHANGED <<saved, savedAt, touched, twin, twinRet>>
    /\ UNCHANGED engineVars
    /\ UNCHANGED <<matrixSize, gen>>

\* cache.isAddressCached(address), on whichever class the cache is of.
IsAddressCachedWired(address) ==
    /\ IF IsLevelTagged(cache)
       THEN LET q == isAddressCachedLevel(cache, heap, address)
            IN cache' = q.cache /\ heap' = q.heap /\ ret' = q.ret
       ELSE LET q == isAddressCached(cache, heap, address)
            IN cache' = q.cache /\ heap' = q.heap /\ ret' = JsBoolean(q.ret)
    /\ call' = [op |-> "isAddressCached", arg |-> address]
    /\ UNCHANGED <<saved, savedAt, touched, twin, twinRet>>
    /\ UNCHANGED engineVars
    /\ UNCHANGED <<matrixSize, gen>>

NextLevel ==
    \/ \E address \in Addresses : AccessWired(address)
    \/ \E address \in Addresses : IsAddressCachedWired(address)

SpecLevel == InitLevel /\ [][NextLevel]_vars

(***************************************************************************)
(* Properties of the cache.                                                *)
(***************************************************************************)
\* The line of address under the cache's lineSize.
LineAt(address) == address - (address % cache.lineSize)

NoDuplicates(s) == \A i, j \in DOMAIN s : i # j => s[i] # s[j]

\* The last n elements of s.
LastN(s, n) == SubSeq(s, Len(s) - n + 1, Len(s))

\* C1: the number of resident lines never exceeds maxLines, for every cache built with
\* capacityBytes >= 0 and lineSize >= 1 (maxLines may be 0), under access,
\* isAddressCached, reset, snapshot and restore.
C1_ResidentWithinMaxLines == Len(Lines) <= cache.maxLines

\* C2: with maxLines >= 1 the resident list has no duplicate and is the
\* min(maxLines, number of distinct lines touched since the last reset) most recently
\* touched lines, least recently touched first; a miss evicts only when the list is at
\* capacity, and then exactly the front line.
C2_LruOrder ==
    /\ [](cache.maxLines >= 1 =>
             /\ NoDuplicates(Lines)
             /\ Lines = LastN(touched, Min(cache.maxLines, Len(touched))))
    /\ [][(cache.maxLines >= 1 /\ call'.op = "access" /\ ~ret') =>
             heap'[cache'.lines] =
                 Append(IF Len(Lines) = cache.maxLines THEN Tail(Lines) ELSE Lines,
                        LineAt(call'.arg))]_vars

\* C2 witness: a two-line cache that has been touched on three lines and has evicted one.
C2_Witness ==
    /\ cache.maxLines = 2
    /\ Len(touched) = 3
    /\ Len(Lines) = 2
    /\ call.op = "access"

\* C3: access hits exactly when the line of the address was resident before the call; it
\* adds one to totalAccesses and one to exactly one of hits and misses; the line is
\* resident afterwards, and a resident line leaves the list only as the front line evicted
\* by a miss (or by reset or restore).
C3_HitIffResident ==
    [][/\ call'.op = "access" =>
              /\ ret' = (LineAt(call'.arg) \in Range(Lines))
              /\ cache'.totalAccesses = cache.totalAccesses + 1
              /\ IF ret'
                 THEN cache'.hits = cache.hits + 1 /\ cache'.misses = cache.misses
                 ELSE cache'.misses = cache.misses + 1 /\ cache'.hits = cache.hits
              /\ LineAt(call'.arg) \in Range(heap'[cache'.lines])
       /\ \A l \in Range(Lines) \ Range(heap'[cache'.lines]) :
              \/ call'.op \in {"reset", "restore"}
              \/ call'.op = "access" /\ ~ret' /\ l = Lines[1]]_vars

\* C3 witness: a hit on an address that is not the first of its line.
C3_Witness ==
    /\ call.op = "access"
    /\ ret
    /\ call.arg % cache.lineSize # 0
    /\ cache.hits >= 1

\* C4: isAddressCached returns whether the line of the address is resident and changes
\* neither the resident list (contents, order) nor the counters.
C4_QueryIsPure ==
    [][call'.op = "isAddressCached" =>
           /\ ret' = (LineAt(call'.arg) \in Range(Lines))
           /\ cache' = cache
           /\ heap'[cache'.lines] = Lines]_vars

\* C4 witness: a query that found a resident line which is not the most recently used one.
C4_Witness ==
    /\ call.op = "isAddressCached"
    /\ ret
    /\ Len(Lines) >= 2
    /\ Lines[Len(Lines)] # LineAt(call.arg)

\* C5: restore(s) makes the resident list and the three counters equal to what they were
\* when s was taken, whatever accesses and resets came in between; restore(snapshot())
\* changes nothing.
C5_RestoreIsExact ==
    /\ call.op = "restore" => CacheValue(cache, heap) = savedAt[1]
    /\ LET s == snapshot(cache, heap)
           r == restore(cache, s.heap, s.snap)
       IN CacheValue(r.cache, r.heap) = CacheValue(cache, heap)

\* C5 witness: a restore of a non-empty snapshot onto a cache that had moved away from it.
C5_Witness ==
    /\ call.op = "restore"
    /\ call.arg = 1
    /\ Len(savedAt[1].lines) >= 1
    /\ savedAt[1].hits + savedAt[1].misses >= 2

\* C6: a snapshot keeps the contents it was taken with, whatever is done to the cache
\* afterwards; and after restore(s) the cache answers every access, and holds after it,
\* what a cache started from the contents of s at the time it was taken does.
C6_SnapshotIsolated ==
    /\ Len(saved) > 0 =>
           [lines |-> heap[saved[1].lines],
            totalAccesses |-> saved[1].totalAccesses,
            hits |-> saved[1].hits,
            misses |-> saved[1].misses] = savedAt[1]
    /\ twin.active =>
           /\ CacheValue(cache, heap) = CacheValue(twin.cache, twin.heap)
           /\ call.op = "access" => ret = twinRet

\* C6 witness: accesses after a restore have taken the cache away from the snapshot.
C6_Witness ==
    /\ twin.active
    /\ call.op = "access"
    /\ Len(saved) > 0
    /\ Lines # heap[saved[1].lines]
    /\ Len(heap[saved[1].lines]) >= 1

(***************************************************************************)
(* Properties of the step engine.                                          *)
(***************************************************************************)
\* The contents of the cache of engine e (null before the first configuration).
CacheView(e) ==
    IF IsNull(e.state.cache) THEN NullCache ELSE CacheValue(e.state.cache, e.heap)

\* The undo stack of engine e, by value.
UndoView(e) ==
    [i \in DOMAIN e.snapshots |->
        [cache |-> [lines |-> e.heap[e.snapshots[i].cache.lines],
                    totalAccesses |-> e.snapshots[i].cache.totalAccesses,
                    hits |-> e.snapshots[i].cache.hits,
                    misses |-> e.snapshots[i].cache.misses],
         stats |-> e.snapshots[i].stats,
         historyLength |-> e.snapshots[i].historyLength,
         iteration |-> e.snapshots[i].iteration]]

\* What a run has computed: the cache, the per-tensor stats and the history.
RunView(e) ==
    [cache |-> CacheView(e), stats |-> e.state.stats, history |-> e.state.history]

\* The simulation state of engine e: the run, the cursor and the undo stack.
SimView(e) ==
    [run |-> RunView(e), cursor |-> e.state.currentIteration, undo |-> UndoView(e)]

\* Everything of engine e but the identities of its arrays.
FullView(e) ==
    [sim |-> SimView(e), isPlaying |-> e.state.isPlaying,
     animationId |-> e.animationId, frames |-> e.frames, error |-> e.error,
     iterations |-> e.state.iterations, layouts |-> e.state.layouts]

RECURSIVE StepTimes(_, _)
\* n calls of executeStep on e.
StepTimes(e, n) == IF n = 0 THEN e ELSE StepTimes(executeStep(e), n - 1)

Clamp(target) == Min(Max(target, 0), N)

\* C7: from any reachable state with cursor < N, stepForward followed by stepBackward
\* restores the cache, the per-tensor stats, the history, the cursor and the undo stack.
C7_ForwardBackward ==
    cursor < N => SimView(stepBackward(stepForward(Eng))) = SimView(Eng)

\* C7 witness: a stepBackward that undid the stepForward just before it.
C7_Witness ==
    /\ event.op = "stepBackward"
    /\ event.arg = 1
    /\ event.dir = -1
    /\ cursor >= 1
    /\ Len(snapshots) >= 1

\* C8: in every reachable state the cache, the per-tensor stats and the history are those
\* of a reset followed by `cursor` calls of executeStep.
C8_ReplayEquivalence ==
    RunView(Eng) = RunView(StepTimes(resetSimulation(Eng), cursor))

\* C8 witness: a jump backward into the middle of a run that has hits.
C8_Witness ==
    /\ event.op = "jumpToIteration"
    /\ event.dir = -1
    /\ 0 < cursor
    /\ cursor < N
    /\ state.cache.hits >= 1

\* C9: jumpToIteration(target) raises no error and leaves the cursor at
\* min(max(target, 0), N), for every integer target.
C9_JumpClamps ==
    event.op = "jumpToIteration" => ~error /\ cursor = Clamp(event.arg)

\* C9 witness: a jump to a target beyond N that advanced the cursor.
C9_Witness ==
    /\ event.op = "jumpToIteration"
    /\ event.arg > N
    /\ event.dir = 1
    /\ N > 0

\* C10: a jump whose clamped target is below the cursor leaves the undo stack empty, so
\* that a stepBackward right after it changes nothing; a jump whose clamped target is at
\* or above the cursor does not reset (playback and the undo stack stay as they were);
\* a jump to the cursor changes nothing at all.
C10_JumpAndUndo ==
    \A target \in JumpTargets :
        LET j == jumpToIteration(Eng, target)
        IN /\ Clamp(target) < cursor =>
                  /\ j.snapshots = <<>>
                  /\ FullView(stepBackward(j)) = FullView(j)
           /\ Clamp(target) >= cursor =>
                  /\ UndoView(j) = UndoView(Eng)
                  /\ j.state.isPlaying = state.isPlaying
                  /\ j.frames = frames
                  /\ j.animationId = animationId
           /\ Clamp(target) = cursor => FullView(j) = FullView(Eng)

\* C10 witness: a jump backward has emptied the undo stack in the middle of a run.
C10_Witness ==
    /\ event.op = "jumpToIteration"
    /\ event.dir = -1
    /\ snapshots = <<>>
    /\ cursor > 0

\* C11: stepBackward with an empty undo stack raises no error and changes nothing (cache,
\* stats, history, cursor, playback), also when the cursor is greater than 0.
C11_EmptyUndoNoOp ==
    snapshots = <<>> =>
        /\ ~stepBackward(Eng).error
        /\ FullView(stepBackward(Eng)) = FullView(Eng)

\* C11 witness: a stepBackward was handled with an empty undo stack in the middle of a run.
C11_Witness ==
    /\ event.op = "stepBackward"
    /\ event.dir = 0
    /\ snapshots = <<>>
    /\ cursor > 0
    /\ state.cache.totalAccesses > 0

RECURSIVE AccessAll(_, _, _)
\* The addresses of addrs accessed one after the other on cache c: the cache and the heap
\* after the last access, and what each access returned.
AccessAll(c, h, addrs) ==
    IF Len(addrs) = 0 THEN [cache |-> c, heap |-> h, rets |-> <<>>]
    ELSE LET a == access(c, h, Head(addrs))
             rest == AccessAll(a.cache, a.heap, Tail(addrs))
         IN [cache |-> rest.cache, heap |-> rest.heap, rets |-> <<a.ret>> \o rest.rets]

\* The position of the tensor called n in operation.tensors.
TensorIndex(n) == CHOOSE i \in DOMAIN operation.tensors : operation.tensors[i].name = n

\* C12: with cursor < N, executeStep accesses the cache once per tensor, in the declared
\* order of the tensors, at the tensor's address for the record at the cursor; it adds one
\* to the tensor's accesses, and one to its hits exactly when its access hit; it appends to
\* the history the hit/miss map it returns; it advances the cursor by one.
C12_ExecuteStep ==
    cursor < N =>
        LET iter == state.iterations[cursor + 1]
            addrs == [i \in DOMAIN operation.tensors |->
                         getAccessAddress(operation.tensors[i], iter, state.layouts,
                                          operation.elementSize)]
            all == AccessAll(state.cache, heap, addrs)
            hit == [n \in TensorNames |-> all.rets[TensorIndex(n)]]
            x == executeStep(Eng)
        IN /\ CacheView(x) = CacheValue(all.cache, all.heap)
           /\ x.state.cache.totalAccesses =
                  state.cache.totalAccesses + Len(operation.tensors)
           /\ \A n \in TensorNames :
                  /\ x.state.stats[n].accesses = state.stats[n].accesses + 1
                  /\ x.state.stats[n].hits =
                         state.stats[n].hits + (IF hit[n] THEN 1 ELSE 0)
           /\ x.state.history = Append(state.history, hit)
           /\ executeStepResult(Eng) = hit
           /\ x.state.currentIteration = cursor + 1
           /\ UndoView(x) = UndoView(Eng)
           /\ ~x.error

\* C12 witness: a step whose map has a hit and a miss has been executed.
C12_Witness ==
    /\ event.op = "stepForward"
    /\ event.dir = 1
    /\ Len(state.history) = cursor
    /\ \E n, m \in TensorNames :
           state.history[cursor][n] /\ ~state.history[cursor][m]

\* C13: 0 <= cursor <= N in every reachable state; at cursor = N executeStep returns null
\* and neither executeStep nor stepForward changes the cache, the stats, the history, the
\* cursor or the undo stack.
C13_CursorInRange ==
    /\ 0 <= cursor
    /\ cursor <= N
    /\ cursor = N =>
           /\ executeStepResult(Eng) = <<>>
           /\ FullView(executeStep(Eng)) = FullView(Eng)
           /\ FullView(stepForward(Eng)) = FullView(Eng)

\* C13 witness: a stepForward was handled at the end of a non-empty iteration list.
C13_Witness ==
    /\ event.op = "stepForward"
    /\ event.dir = 0
    /\ N > 0
    /\ cursor = N

\* The snapshot of engine e as it is: what stepForward is to push, by value.
SnapshotOf(e) ==
    [cache |-> CacheView(e),
     stats |-> e.state.stats,
     historyLength |-> Len(e.state.history),
     iteration |-> e.state.currentIteration]

\* C14 as stated: every stepForward call on a configured engine pushes a snapshot of the
\* pre-step state onto the undo stack and then runs executeStep.
C14_EveryStepForwardPushes ==
    ~IsNull(state.cache) =>
        LET x == stepForward(Eng)
        IN /\ UndoView(x) = Append(UndoView(Eng), SnapshotOf(Eng))
           /\ RunView(x) = RunView(executeStep(Eng))
           /\ x.state.currentIteration = executeStep(Eng).state.currentIteration

\* C14 amended: every stepForward call with cursor < N pushes a snapshot of the pre-step
\* state (cache contents and counters, per-tensor stats, history length, cursor) onto the
\* undo stack and then runs executeStep; the snapshots already on the stack stay as pushed.
C14_StepForwardPushes ==
    cursor < N =>
        LET x == stepForward(Eng)
        IN /\ UndoView(x) = Append(UndoView(Eng), SnapshotOf(Eng))
           /\ RunView(x) = RunView(executeStep(Eng))
           /\ x.state.currentIteration = cursor + 1

\* C14 witness: a stepForward pushed a snapshot of a run that had already hit and missed.
C14_Witness ==
    /\ event.op = "stepForward"
    /\ event.dir = 1
    /\ Len(snapshots) >= 1
    /\ snapshots[Len(snapshots)].iteration = cursor - 1
    /\ snapshots[Len(snapshots)].cache.hits >= 1
    /\ heap[snapshots[Len(snapshots)].cache.lines] # heap[state.cache.lines]

\* C16: resetSimulation, from every reachable state, sets the cursor to 0, clears the stats
\* of every tensor, the history and the undo stack, resets the cache and stops playback;
\* the iteration list, the layouts and the geometry of the cache stay.
C16_EngineReset ==
    LET r == resetSimulation(Eng)
    IN /\ r.state.currentIteration = 0
       /\ \A n \in TensorNames : r.state.stats[n] = [accesses |-> 0, hits |-> 0]
       /\ r.state.history = <<>>
       /\ r.snapshots = <<>>
       /\ ~r.state.isPlaying
       /\ r.animationId = 0
       /\ r.frames = {}
       /\ r.state.iterations = state.iterations
       /\ r.state.layouts = state.layouts
       /\ ~r.error
       /\ IF IsNull(state.cache) THEN IsNull(r.state.cache)
          ELSE /\ CacheView(r) = [lines |-> <<>>, totalAccesses |-> 0,
                                  hits |-> 0, misses |-> 0]
               /\ r.state.cache.lineSize = state.cache.lineSize
               /\ r.state.cache.maxLines = state.cache.maxLines
               /\ r.state.cache.capacityBytes = state.cache.capacityBytes

\* C16 witness: a reset took the engine back from the middle of a run.
C16_Witness ==
    /\ event.op = "resetSimulation"
    /\ event.dir = -1
    /\ cursor = 0
    /\ N > 0
    /\ ~IsNull(state.cache)

\* C17: CacheSimulator.reset(), from every state, empties the resident list and zeroes
\* totalAccesses, hits and misses, keeps lineSize and maxLines, and the first access to any
\* line after it is a miss.
C17_CacheReset ==
    /\ LET r == reset(cache, heap)
       IN /\ r.heap[r.cache.lines] = <<>>
          /\ r.cache.totalAccesses = 0 /\ r.cache.hits = 0 /\ r.cache.misses = 0
          /\ r.cache.lineSize = cache.lineSize
          /\ r.cache.maxLines = cache.maxLines
          /\ \A address \in Addresses : ~access(r.cache, r.heap, address).ret
    /\ call.op = "reset" =>
           /\ Lines = <<>>
           /\ cache.totalAccesses = 0 /\ cache.hits = 0 /\ cache.misses = 0

\* C17 witness: a reset of a cache that held a line.
C17_Witness ==
    /\ call.op = "reset"
    /\ call.arg = 1
    /\ cache.maxLines >= 1

\* C15: the depth of the undo stack never exceeds the high-water mark plus one, under
\* any sequence of stepForward calls and playback ticks, and the stack always holds the
\* most recent snapshots (the entries dropped are the oldest ones).
C15_UndoDepthCapped ==
    /\ Len(snapshots) <= SnapshotHighWater + 1
    /\ \A i \in DOMAIN snapshots :
           snapshots[i].iteration = cursor - Len(snapshots) + i - 1

(***************************************************************************)
(* Properties of the generators.                                           *)
(***************************************************************************)
RECURSIVE Product(_, _)
\* The product of bounds[d] over the dimensions d of the sequence dims.
Product(dims, bounds) ==
    IF Len(dims) = 0 THEN 1 ELSE bounds[Head(dims)] * Product(Tail(dims), bounds)

\* order holds every element of dims exactly once.
IsPermutation(order, dims) ==
    /\ Len(order) = Len(dims)
    /\ Range(order) = Range(dims)

\* The loop dimensions of record rec, without tile origins and local offsets.
Point(rec, dims) == [d \in Range(dims) |-> rec[d]]

\* A generator was called with a key of op.loopOrders.
Generated(name) == gen.call = name /\ gen.loopOrder \in DOMAIN gen.op.loopOrders

\* C18: for every operation and every key of its loopOrders (each a permutation of
\* loopDims), generateIterations returns getTotalIterations() records, which is the
\* product of the loopBounds; every index is in [0, bound) of its dimension; no tuple
\* comes twice (so every tuple of the Cartesian product comes exactly once).
C18_PlainCoversSpace ==
    Generated("generateIterations") =>
        LET op == gen.op
            dims == op.loopDims
        IN /\ ~gen.threw
           /\ IsPermutation(op.loopOrders[gen.loopOrder], dims)
           /\ Len(gen.value) = getTotalIterations(op)
           /\ Len(gen.value) = Product(dims, op.loopBounds)
           /\ \A i \in DOMAIN gen.value :
                  /\ DOMAIN gen.value[i] = Range(dims)
                  /\ \A d \in Range(dims) :
                         0 <= gen.value[i][d] /\ gen.value[i][d] < op.loopBounds[d]
           /\ Cardinality(Range(gen.value)) = Len(gen.value)

\* C18 witness: a conv2d operation generated in an order that is not the declared one.
C18_Witness ==
    /\ Generated("generateIterations")
    /\ gen.op.name = "conv2d"
    /\ gen.op.loopOrders[gen.loopOrder] # gen.op.loopDims
    /\ Len(gen.value) >= 16
    /\ gen.op.loopBounds.h_out # gen.op.loopBounds.k_w

\* C19: for every operation, every key of its loopOrders and every tile size >= 1,
\* generateTiledIterations returns as many records as generateIterations, with the same
\* set of dimension-value tuples, each exactly once.
C19_TiledCoversSpace ==
    Generated("generateTiledIterations") /\ gen.tileSize >= 1 =>
        LET op == gen.op
            plain == generateIterations(op, gen.loopOrder).value
            points == [i \in DOMAIN gen.value |-> Point(gen.value[i], op.loopDims)]
        IN /\ ~gen.threw
           /\ Len(gen.value) = Len(plain)
           /\ Range(points) = Range(plain)
           /\ Cardinality(Range(points)) = Len(points)

\* C19 witness: a tile size that is smaller than a bound of a tiled dimension and does not
\* divide it, and a tiled order that differs from the plain one.
C19_Witness ==
    /\ Generated("generateTiledIterations")
    /\ gen.tileSize >= 1
    /\ \E d \in Range(gen.op.tileableDims) :
           /\ gen.tileSize < gen.op.loopBounds[d]
           /\ gen.op.loopBounds[d] % gen.tileSize # 0
    /\ [i \in DOMAIN gen.value |-> Point(gen.value[i], gen.op.loopDims)]
           # generateIterations(gen.op, gen.loopOrder).value

\* C20: in every record of generateTiledIterations, for each tileable dimension d, the
\* tile origin t_d is a multiple of the tile size in [0, bound_d), the index is in
\* [t_d, min(t_d + tileSize, bound_d)), and the local offset l_d is d - t_d; the other
\* dimensions have no tile origin and no local offset.
C20_TileFields ==
    Generated("generateTiledIterations") /\ gen.tileSize >= 1 =>
        LET op == gen.op
            tileable == Range(op.tileableDims)
        IN \A i \in DOMAIN gen.value :
               LET rec == gen.value[i]
               IN /\ DOMAIN rec = Range(op.loopDims)
                                  \cup {"t" \o d : d \in tileable}
                                  \cup {"l" \o d : d \in tileable}
                  /\ \A d \in tileable :
                         LET t == rec["t" \o d]
                         IN /\ t % gen.tileSize = 0
                            /\ 0 <= t /\ t < op.loopBounds[d]
                            /\ t <= rec[d]
                            /\ rec[d] < Min(t + gen.tileSize, op.loopBounds[d])
                            /\ rec["l" \o d] = rec[d] - t

\* C20 witness: a conv2d operation (c_out, c_in, k_h, k_w are not tileable) tiled with a
\* size that leaves a partial last tile: a record in a later tile and one off its origin.
C20_Witness ==
    /\ Generated("generateTiledIterations")
    /\ gen.tileSize >= 1
    /\ gen.op.name = "conv2d"
    /\ gen.op.loopBounds.h_out % gen.tileSize # 0
    /\ \E i \in DOMAIN gen.value : gen.value[i].th_out > 0
    /\ \E i \in DOMAIN gen.value : gen.value[i].lh_out > 0

(***************************************************************************)
(* Properties of the tensors of an operation.                              *)
(***************************************************************************)
\* The coordinates c are those of an element of tensor.
InRange(tensor, c) ==
    /\ 0 <= c.row /\ c.row < tensor.rows
    /\ 0 <= c.col /\ c.col < tensor.cols
    /\ "channel" \in DOMAIN c => 0 <= c.channel /\ c.channel < tensor.channels
    /\ "c_in" \in DOMAIN c => 0 <= c.c_in /\ c.c_in < tensor.channels_in
    /\ "c_out" \in DOMAIN c => 0 <= c.c_out /\ c.c_out < tensor.channels_out

\* C22: for every tensor, every declared layout and every record of the index space,
\* getCoordinatesFromLinear(getLinearIndex(iter, layout), layout) = getIndices(iter); and
\* every linear index in [0, getTotalElements()) decodes to in-range coordinates that are
\* those of a record which linearizes to that index.
C22_LinearRoundTrip ==
    Generated("generateIterations") =>
        \A t \in DOMAIN gen.op.tensors :
            LET tensor == gen.op.tensors[t]
            IN \A layout \in DeclaredLayouts(tensor) :
                   /\ \A i \in DOMAIN gen.value :
                          getCoordinatesFromLinear(
                              tensor, tensorGetLinearIndex(tensor, gen.value[i], layout),
                              layout) = getIndices(tensor, gen.value[i])
                   /\ \A linearIdx \in 0..(getTotalElements(tensor) - 1) :
                          LET c == getCoordinatesFromLinear(tensor, linearIdx, layout)
                          IN /\ InRange(tensor, c)
                             /\ \E i \in DOMAIN gen.value :
                                    /\ getIndices(tensor, gen.value[i]) = c
                                    /\ tensorGetLinearIndex(tensor, gen.value[i], layout)
                                           = linearIdx

\* C22 witness: a conv2d operation whose kernel, input and channel extents all exceed 1,
\* with a rectangular input.
C22_Witness ==
    /\ Generated("generateIterations")
    /\ gen.op.name = "conv2d"
    /\ gen.op.dimensions.channels_in > 1
    /\ gen.op.dimensions.channels_out > 1
    /\ gen.op.dimensions.kernelW > 1
    /\ gen.op.dimensions.inputH # gen.op.dimensions.inputW

RECURSIVE ElementsBefore(_, _)
\* The number of elements of the first n tensors of tensors.
ElementsBefore(tensors, n) ==
    IF n = 0 THEN 0
    ELSE ElementsBefore(tensors, n - 1) + getTotalElements(tensors[n])

\* The addresses of tensor: [baseAddress, baseAddress + getTotalElements() * elementSize).
AddressRange(tensor, elementSize) ==
    tensor.baseAddress .. (tensor.baseAddress + getTotalElements(tensor) * elementSize - 1)

\* C23: each tensor's base address is elementSize times the element count of the tensors
\* declared before it; every access of a tensor, for every record and declared layout, is
\* at an address of the tensor's range; the ranges of different tensors do not overlap.
C23_AddressRanges ==
    Generated("generateIterations") =>
        LET op == gen.op
        IN /\ \A t \in DOMAIN op.tensors :
                  LET tensor == op.tensors[t]
                  IN /\ tensor.baseAddress
                            = op.elementSize * ElementsBefore(op.tensors, t - 1)
                     /\ \A layout \in DeclaredLayouts(tensor) :
                            \A i \in DOMAIN gen.value :
                                getAccessAddress(tensor, gen.value[i],
                                                 (tensor.name :> layout), op.elementSize)
                                    \in AddressRange(tensor, op.elementSize)
           /\ \A t, u \in DOMAIN op.tensors :
                  t # u => AddressRange(op.tensors[t], op.elementSize)
                           \cap AddressRange(op.tensors[u], op.elementSize) = {}

\* C23 witness: a conv2d operation whose three tensors differ in size.
C23_Witness ==
    /\ Generated("generateIterations")
    /\ gen.op.name = "conv2d"
    /\ getTotalElements(gen.op.tensors[1]) > getTotalElements(gen.op.tensors[2])
    /\ getTotalElements(gen.op.tensors[2]) > getTotalElements(gen.op.tensors[3])
    /\ Len(gen.value) > 1

\* C21: a generator called with a loop order that is not a key of op.loopOrders fails with
\* an 'Unknown loop order' error and returns no iteration list.
C21_UnknownOrderFails ==
    (gen.call # "none" /\ gen.loopOrder \notin DOMAIN gen.op.loopOrders) =>
        /\ gen.threw
        /\ gen.message = "Unknown loop order"
        /\ gen.value = <<>>

\* C26 as stated: generateTiledIterations raises a configuration error for a tile size
\* that is not a positive integer or does not evenly divide the bound of a tiled dimension.
C26_BadTileSizeRejected ==
    (/\ Generated("generateTiledIterations")
     /\ \/ gen.tileSize < 1
        \/ \E d \in Range(gen.op.tileableDims) :
               gen.op.loopBounds[d] % gen.tileSize # 0) =>
        gen.threw

\* C26 amended: generateTiledIterations rejects no tile size.  A tile size >= 1, whether
\* or not it divides the bounds, gives the full index space (the last tile is cut at the
\* bound); with a tile size <= 0 the tile loop never ends and nothing is returned.
C26_TileSizeNotValidated ==
    Generated("generateTiledIterations") =>
        /\ ~gen.threw
        /\ gen.tileSize >= 1 =>
               /\ ~gen.diverged
               /\ Len(gen.value) = getTotalIterations(gen.op)
        /\ gen.tileSize < 1 => gen.diverged

\* C26 witness: a tile size above 1 that divides no tiled bound was accepted.
C26_Witness ==
    /\ Generated("generateTiledIterations")
    /\ gen.tileSize > 1
    /\ \A d \in Range(gen.op.tileableDims) :
           gen.op.loopBounds[d] > gen.tileSize /\ gen.op.loopBounds[d] % gen.tileSize # 0
    /\ ~gen.threw
    /\ Len(gen.value) > 1

\* C24: an operation whose derived dimensions are not positive (matmul of size <= 0,
\* conv2d whose kernel exceeds the input so that outputH or outputW is <= 0) is rejected
\* with an error by its factory.
C24_InvalidDimensionsRejected ==
    /\ (gen.call = "createMatmulOperation" /\ gen.size <= 0) => gen.threw
    /\ (/\ gen.call = "createConv2dOperation"
        /\ \/ gen.config.inputH - gen.config.kernelH + 1 <= 0
           \/ gen.config.inputW - gen.config.kernelW + 1 <= 0) => gen.threw

\* C25: access and isAddressCached return a boolean, on every CacheSimulator class of the
\* repository.
C25_BooleanResults ==
    call.op \in {"access", "isAddressCached"} => ret.type = "boolean"

(***************************************************************************)
(* Order of the generated sequences.                                       *)
(***************************************************************************)
\* a comes before b in lexicographic order (sequences of integers of one length).
LexLess(a, b) ==
    \E i \in DOMAIN a : a[i] < b[i] /\ \A j \in 1..(i - 1) : a[j] = b[j]

\* The values of record rec at the fields named by the sequence fields.
Values(rec, fields) == [i \in DOMAIN fields |-> rec[fields[i]]]

\* The non-tileable dimensions of order that precede its first tileable one.
OuterDims(op, order) ==
    SubSeq(order, 1, findFirstTiled(order, Range(op.tileableDims)) - 1)

\* The tile-origin fields of the tileable dimensions, in their order of appearance.
TileOrigins(op, order) ==
    LET tiled == SelectIn(order, Range(op.tileableDims))
    IN [i \in DOMAIN tiled |-> "t" \o tiled[i]]

\* The dimensions of order from its first tileable one onward.
FromFirstTiled(op, order) ==
    SubSeq(order, findFirstTiled(order, Range(op.tileableDims)), Len(order))

\* The fields of a record from the outermost to the innermost loop of the nest of C27.
NestFields(op, order) ==
    OuterDims(op, order) \o TileOrigins(op, order) \o FromFirstTiled(op, order)

\* The fields of a record from the outermost to the innermost loop of the documented
\* nest of C28: the element loops of the tiled dimensions innermost.
DocumentedNestFields(op, order) ==
    OuterDims(op, order) \o TileOrigins(op, order)
    \o SelectIn(FromFirstTiled(op, order), Range(order) \ Range(op.tileableDims))
    \o SelectIn(order, Range(op.tileableDims))

\* The sequence of records recs runs through the loop nest whose loops are, from the
\* outermost to the innermost, over fields: each record comes lexicographically after
\* the one before it.
RunsNest(recs, fields) ==
    \A p \in 1..(Len(recs) - 1) :
        LexLess(Values(recs[p], fields), Values(recs[p + 1], fields))

C28_ElementLoopsInnermost ==
    Generated("generateTiledIterations") /\ gen.tileSize >= 1 =>
        RunsNest(gen.value,
                 DocumentedNestFields(gen.op, gen.op.loopOrders[gen.loopOrder]))

\* The outer non-tiled dimensions and the tile origins: the fields that name a block.
BlockFields(op, order) == OuterDims(op, order) \o TileOrigins(op, order)

\* C29: along the sequence of generateTiledIterations the tuple (outer dimensions, tile
\* origins) never decreases in lexicographic order, so the records of one tuple are one
\* contiguous block and the blocks come in lexicographic order; the first record has
\* every tile origin 0; the tile origins are all 0 again when an outer dimension changes;
\* for matmul of size 4, order ijk, tile size 2, the first 8 records have ti = tj = tk = 0.
C29_TileBlocks ==
    Generated("generateTiledIterations") /\ gen.tileSize >= 1 =>
        LET op == gen.op
            order == op.loopOrders[gen.loopOrder]
            block == BlockFields(op, order)
            outer == OuterDims(op, order)
            origins == TileOrigins(op, order)
            recs == gen.value
        IN /\ \A p \in 1..(Len(recs) - 1) :
                  \/ Values(recs[p], block) = Values(recs[p + 1], block)
                  \/ LexLess(Values(recs[p], block), Values(recs[p + 1], block))
           /\ Len(recs) > 0 => \A i \in DOMAIN block : recs[1][block[i]] = 0
           /\ \A p \in 1..(Len(recs) - 1) :
                  Values(recs[p], outer) # Values(recs[p + 1], outer) =>
                      \A i \in DOMAIN origins : recs[p + 1][origins[i]] = 0
           /\ (op.name = "matmul" /\ op.size = 4 /\ gen.loopOrder = "ijk"
                                  /\ gen.tileSize = 2) =>
                  /\ \A p \in 1..8 : Values(recs[p], origins) = <<0, 0, 0>>
                  /\ Values(recs[9], origins) # <<0, 0, 0>>

\* C29 witness: conv2d with c_out outermost, two values of c_out and more than one tile
\* per value of c_out.
C29_Witness ==
    /\ Generated("generateTiledIterations")
    /\ gen.op.name = "conv2d"
    /\ gen.op.loopOrders[gen.loopOrder] = gen.op.loopDims
    /\ gen.tileSize >= 1
    /\ gen.op.loopBounds.c_out = 2
    /\ gen.tileSize < gen.op.loopBounds.h_out
    /\ \E p \in 1..(Len(gen.value) - 1) :
           /\ gen.value[p].c_out # gen.value[p + 1].c_out
           /\ gen.value[p].th_out # 0

\* C30: the record of generateIterations at position p (from 0) has, for the dimension at
\* depth d of the order, the value floor(p / product of the bounds of the deeper
\* dimensions) mod its bound.
C30_PlainLexicographic ==
    Generated("generateIterations") =>
        LET op == gen.op
            order == op.loopOrders[gen.loopOrder]
        IN /\ RunsNest(gen.value, order)
           /\ \A p \in 0..(Len(gen.value) - 1) :
                  \A d \in DOMAIN order :
                      gen.value[p + 1][order[d]] =
                          (p \div Product(SubSeq(order, d + 1, Len(order)), op.loopBounds))
                              % op.loopBounds[order[d]]

\* C30 witness: an order that is not the declared one, over bounds that are not all equal.
C30_Witness ==
    /\ Generated("generateIterations")
    /\ gen.op.name = "conv2d"
    /\ gen.loopOrder = "k_h,k_w,c_in,c_out,h_out,w_out"
    /\ gen.op.loopBounds.k_h = 2
    /\ gen.op.loopBounds.w_out = 3
    /\ gen.op.loopBounds.c_in = 2
    /\ Len(gen.value) >= 12

(***************************************************************************)
(* Properties of the address resolver.                                     *)
(***************************************************************************)
\* A tensor definition that has no getLinearIndex: getAccessAddress takes its fallback
\* path, getIndices followed by getTensorAddress.
WithoutGetLinearIndex(tensor) == [tensor EXCEPT !.hasGetLinearIndex = FALSE]

\* The tensor has only rows and columns (a matmul tensor).
Is2D(tensor) == tensor.name \notin {"Input", "Kernel", "Output"}

\* C31: getAccessAddress is baseAddress + L * elementSize with L the tensor's linear index
\* under the selected layout (for a 2D tensor row * size + col, or col * size + row when
\* the layout is 'col'); for a 2D tensor the path through tensor.getLinearIndex and the
\* path through getIndices and getTensorAddress give the same address, for every record
\* and both layouts.
C31_AccessAddress ==
    Generated("generateIterations") =>
        LET op == gen.op
        IN \A t \in DOMAIN op.tensors :
               LET tensor == op.tensors[t]
               IN \A layout \in DeclaredLayouts(tensor) :
                      \A p \in DOMAIN gen.value :
                          LET iter == gen.value[p]
                              layouts == (tensor.name :> layout)
                              address == getAccessAddress(tensor, iter, layouts,
                                                          op.elementSize)
                              indices == getIndices(tensor, iter)
                          IN /\ address = tensor.baseAddress
                                    + tensorGetLinearIndex(tensor, iter, layout)
                                      * op.elementSize
                             /\ Is2D(tensor) =>
                                    /\ address = tensor.baseAddress + op.elementSize *
                                           (IF layout = "col"
                                            THEN indices.col * op.size + indices.row
                                            ELSE indices.row * op.size + indices.col)
                                    /\ address = getAccessAddress(
                                                     WithoutGetLinearIndex(tensor), iter,
                                                     layouts, op.elementSize)

\* C31 witness: a matmul of size 3 was generated: its tensor B, in column-major layout,
\* has a record whose row and column differ, so that the two layouts give two addresses.
C31_Witness ==
    /\ Generated("generateIterations")
    /\ gen.op.name = "matmul"
    /\ gen.op.size = 3
    /\ \E p \in DOMAIN gen.value :
           LET tensor == gen.op.tensors[2]
               iter == gen.value[p]
           IN /\ getIndices(tensor, iter).row # getIndices(tensor, iter).col
              /\ getAccessAddress(WithoutGetLinearIndex(tensor), iter,
                                  (tensor.name :> "col"), gen.op.elementSize)
                     # getAccessAddress(WithoutGetLinearIndex(tensor), iter,
                                        (tensor.name :> "row"), gen.op.elementSize)

(***************************************************************************)
(* Properties of the engine's bookkeeping.                                 *)
(***************************************************************************)
\* C32: with a non-empty undo stack, stepBackward moves the cursor back by exactly one
\* iteration, after any sequence of stepForward calls, playback ticks and jumps.
C32_BackwardByOne ==
    snapshots # <<>> => stepBackward(Eng).state.currentIteration = cursor - 1

RECURSIVE SumHits(_, _)
\* The sum of stats[name].hits over the first i tensors of the operation.
SumHits(stats, i) ==
    IF i = 0 THEN 0
    ELSE stats[operation.tensors[i].name].hits + SumHits(stats, i - 1)

\* C33: in every state of the engine that has a cache, the history is as long as the
\* cursor; every tensor's accesses equal the cursor; the cache's totalAccesses is the
\* number of tensors times the cursor; every tensor's hits are the number of history
\* entries that mark it as a hit; the tensors' hits add up to the cache's hits.
C33_Bookkeeping ==
    ~IsNull(state.cache) =>
        /\ Len(state.history) = cursor
        /\ \A n \in TensorNames : state.stats[n].accesses = cursor
        /\ state.cache.totalAccesses = Len(operation.tensors) * cursor
        /\ \A n \in TensorNames :
               state.stats[n].hits =
                   Cardinality({i \in DOMAIN state.history : state.history[i][n]})
        /\ SumHits(state.stats, Len(operation.tensors)) = state.cache.hits

\* C33 witness: a stepBackward has moved the cursor back to a state with at least two
\* executed steps, hits and misses.
C33_Witness ==
    /\ event.op = "stepBackward"
    /\ event.dir = -1
    /\ cursor >= 2
    /\ state.cache.hits > 0
    /\ state.cache.misses > 0
    /\ \E n \in TensorNames : state.stats[n].hits > 0 /\ state.stats[n].hits < cursor

\* C34: the cursors recorded in the undo stack increase strictly from bottom to top and
\* are all strictly smaller than the cursor; every snapshot's history length is its
\* cursor; so stepBackward with a non-empty stack strictly decreases the cursor.
C34_UndoStackOrdered ==
    /\ \A i \in 1..(Len(snapshots) - 1) :
           snapshots[i].iteration < snapshots[i + 1].iteration
    /\ \A i \in DOMAIN snapshots :
           /\ snapshots[i].iteration < cursor
           /\ snapshots[i].historyLength = snapshots[i].iteration
    /\ snapshots # <<>> => stepBackward(Eng).state.currentIteration < cursor

\* C34 witness: two snapshots whose cursors are not consecutive, the cursor more than one
\* above the top one (forward jumps lie between the pushes and after them).
C34_Witness ==
    /\ Len(snapshots) = 2
    /\ snapshots[2].iteration > snapshots[1].iteration + 1
    /\ cursor > snapshots[2].iteration + 1

\* C35: hits + misses = totalAccesses in every state of a cache, under access,
\* isAddressCached, reset, snapshot and restore of its own snapshots; the snapshots it
\* handed out satisfy the same.
C35_CountersAddUp ==
    /\ cache.hits + cache.misses = cache.totalAccesses
    /\ \A i \in DOMAIN saved :
           saved[i].hits + saved[i].misses = saved[i].totalAccesses

\* C35 witness: a restore has brought back counters with hits and misses, from a cache
\* that had gone on since the snapshot.
C35_Witness ==
    /\ call.op = "restore"
    /\ call.arg = 1
    /\ cache.hits > 0
    /\ cache.misses > 0

(***************************************************************************)
(* Properties of playback.                                                 *)
(***************************************************************************)
\* C36: under every interleaving of user events and animation-frame callbacks at most one
\* frame is pending; while isPlaying is false no frame is pending and animate, were it
\* run, would change nothing; so while isPlaying is false the cursor is moved by no
\* animate callback.
C36_OneFramePending ==
    /\ [](/\ Cardinality(frames) <= 1
          /\ ~state.isPlaying =>
                 /\ frames = {}
                 /\ \A due \in BOOLEAN : animate(Eng, due) = Eng)
    /\ [][(~state.isPlaying /\ cursor' # cursor) => event'.op # "animate"]_vars

\* C36 witness: playback was stopped by play/pause in the middle of a run, after playback
\* ticks had advanced the cursor: the pending frame is gone.
C36_Witness ==
    /\ event.op = "togglePlayPause"
    /\ ~state.isPlaying
    /\ cursor > 0
    /\ cursor < N
    /\ snapshots # <<>>
    /\ frames = {}
    /\ animationId = 0

\* C37: playback started with cursor < N and left alone: a tick that is due executes
\* exactly one step while cursor < N, and at cursor = N it stops playback and requests no
\* frame; a tick that is not due executes none; the cursor reaches N and playback then
\* stops (isPlaying false, no frame pending) and stays stopped; startAnimation while
\* playing or at cursor = N changes nothing.
C37_PlaybackCompletes ==
    /\ [][event'.op = "animate" =>
            /\ (event'.arg # 0 /\ cursor < N) =>
                   cursor' = cursor + 1 /\ state'.isPlaying /\ Cardinality(frames') = 1
            /\ (event'.arg # 0 /\ cursor = N) =>
                   cursor' = cursor /\ ~state'.isPlaying /\ frames' = {}
            /\ event'.arg = 0 => cursor' = cursor /\ state'.isPlaying]_vars
    /\ [](state.isPlaying \/ (cursor = N /\ ~IsNull(state.cache)) =>
              startAnimation(Eng) = Eng)
    /\ state.isPlaying ~> (cursor = N /\ state.isPlaying)
    /\ state.isPlaying ~> [](cursor = N /\ ~state.isPlaying /\ frames = {})

\* C37 witness: playback has run at least three steps to the end and stopped itself.
C37_Witness ==
    /\ event.op = "animate"
    /\ event.arg # 0
    /\ cursor = N
    /\ ~state.isPlaying
    /\ frames = {}
    /\ Len(snapshots) >= 3

(***************************************************************************)
(* Properties of the renderer's residency predicates.                      *)
(***************************************************************************)
\* The layouts a tensor can be given, the default one first.
LayoutOptions(tensor) ==
    IF "layoutOptions" \in DOMAIN tensor THEN tensor.layoutOptions ELSE <<"row", "col">>

\* state.layouts with every tensor of op in its k-th layout.
LayoutMap(op, k) ==
    LET named(n) == CHOOSE i \in DOMAIN op.tensors : op.tensors[i].name = n
    IN [n \in {op.tensors[i].name : i \in DOMAIN op.tensors} |->
           LayoutOptions(op.tensors[named(n)])[k]]

\* The addresses executeStep accesses for record iter, in the order of op.tensors.
StepAddresses(op, iter, layouts) ==
    [i \in DOMAIN op.tensors |->
        getAccessAddress(op.tensors[i], iter, layouts, op.elementSize)]

RECURSIVE CacheAfterSteps(_, _, _, _, _, _)
\* The cache c (of heap h) after the steps of the first n records of recs.
CacheAfterSteps(op, layouts, recs, n, c, h) ==
    IF n = 0 THEN [cache |-> c, heap |-> h]
    ELSE LET before == CacheAfterSteps(op, layouts, recs, n - 1, c, h)
             all == AccessAll(before.cache, before.heap,
                              StepAddresses(op, recs[n], layouts))
         IN [cache |-> all.cache, heap |-> all.heap]

RECURSIVE AccessedAreCached(_, _, _, _, _, _)
\* From record p of recs on: right after each step, every element the step accessed is
\* reported as cached.
AccessedAreCached(op, layouts, recs, p, c, h) ==
    IF p > Len(recs) THEN TRUE
    ELSE LET all == AccessAll(c, h, StepAddresses(op, recs[p], layouts))
         IN /\ \A i \in DOMAIN op.tensors :
                   isElementInCacheByCoords(op.tensors[i], getIndices(op.tensors[i], recs[p]),
                                            all.cache, all.heap, layouts,
                                            op.elementSize).ret
            /\ AccessedAreCached(op, layouts, recs, p + 1, all.cache, all.heap)

\* A cache of `lines` lines of two elements each.
SmallCache(op, lines) ==
    CacheSimulator(<<>>, lines * 2 * op.elementSize, 2 * op.elementSize)

\* C38: for every tensor, declared layout and record, the residency predicate asked about
\* the record's coordinates queries the address getAccessAddress computes; every in-range
\* coordinate tuple (the decoding of a linear index) is queried at baseAddress + index *
\* elementSize; an element is reported as cached exactly when the line of that address is
\* resident; right after a step on a cache with as many lines as tensors, every element
\* the step accessed is reported as cached.
C38_ResidencyPredicates ==
    Generated("generateIterations") =>
        LET op == gen.op
            recs == gen.value
            new == SmallCache(op, Len(op.tensors))
        IN /\ \A t \in DOMAIN op.tensors :
                  LET tensor == op.tensors[t]
                  IN \A layout \in DeclaredLayouts(tensor) :
                         LET layouts == (tensor.name :> layout)
                         IN /\ \A p \in DOMAIN recs :
                                   isElementInCacheByCoords(
                                       tensor, getIndices(tensor, recs[p]), new.cache,
                                       new.heap, layouts, op.elementSize).address
                                   = getAccessAddress(tensor, recs[p], layouts,
                                                      op.elementSize)
                            /\ \A idx \in 0..(getTotalElements(tensor) - 1) :
                                   isElementInCacheByCoords(
                                       tensor, getCoordinatesFromLinear(tensor, idx, layout),
                                       new.cache, new.heap, layouts,
                                       op.elementSize).address
                                   = tensor.baseAddress + idx * op.elementSize
           /\ \A k \in {1, 2} :
                  LET layouts == LayoutMap(op, k)
                      after == CacheAfterSteps(op, layouts, recs, Min(2, Len(recs)),
                                               new.cache, new.heap)
                  IN /\ \A t \in DOMAIN op.tensors :
                            \A idx \in 0..(getTotalElements(op.tensors[t]) - 1) :
                                LET q == isElementInCacheByCoords(
                                             op.tensors[t],
                                             getCoordinatesFromLinear(op.tensors[t], idx,
                                                                      layouts[op.tensors[t].name]),
                                             after.cache, after.heap, layouts,
                                             op.elementSize)
                                IN q.ret <=> getLineAddress(after.cache, q.address)
                                                 \in Range(after.heap[after.cache.lines])
                     /\ AccessedAreCached(op, layouts, recs, 1, new.cache, new.heap)

\* C38 witness: a conv2d operation whose Input has more than one channel, row and column
\* (so that its two layouts address an element differently), and after two steps an
\* element of the Kernel is reported as cached and another is not.
C38_Witness ==
    /\ Generated("generateIterations")
    /\ gen.op.name = "conv2d"
    /\ Len(gen.value) >= 8
    /\ gen.op.tensors[1].channels > 1
    /\ gen.op.tensors[1].rows > 1
    /\ gen.op.tensors[1].cols > 1
    /\ LET op == gen.op
           layouts == LayoutMap(op, 2)
           new == SmallCache(op, Len(op.tensors))
           after == CacheAfterSteps(op, layouts, gen.value, 2, new.cache, new.heap)
           kernel == op.tensors[2]
           cached(idx) == isElementInCacheByCoords(
                              kernel, getCoordinatesFromLinear(kernel, idx, layouts.Kernel),
                              after.cache, after.heap, layouts, op.elementSize).ret
       IN \E i, j \in 0..(getTotalElements(kernel) - 1) : cached(i) /\ ~cached(j)

\* C39: generateTiledIterations returns (it neither runs forever nor throws) a list of
\* getTotalIterations() records for every operation, every key of its loopOrders and
\* every tile size >= 1; a tile size that is at least the bound of a tiled dimension gives
\* a single tile along it: every record has tile origin 0 there.
C39_TiledTerminates ==
    Generated("generateTiledIterations") /\ gen.tileSize >= 1 =>
        /\ ~gen.diverged
        /\ ~gen.threw
        /\ Len(gen.value) = getTotalIterations(gen.op)
        /\ \A d \in Range(gen.op.tileableDims) :
               gen.tileSize >= gen.op.loopBounds[d] =>
                   \A p \in DOMAIN gen.value :
                       /\ gen.value[p]["t" \o d] = 0
                       /\ gen.value[p]["l" \o d] = gen.value[p][d]

\* C39 witness: a tile size larger than the bound (at least 2) of a tiled dimension, which
\* it does not divide.
C39_Witness ==
    /\ Generated("generateTiledIterations")
    /\ \E d \in Range(gen.op.tileableDims) :
           /\ gen.op.loopBounds[d] >= 2
           /\ gen.tileSize > gen.op.loopBounds[d]
           /\ \E p \in DOMAIN gen.value : gen.value[p][d] = gen.op.loopBounds[d] - 1
    /\ ~gen.diverged
    /\ Len(gen.value) >= 8

====
